---- MODULE Spec2Model ----
(***************************************************************************)
(* Model of synth_tui.deploy: the LogAggregator (ordering queue + single   *)
(* daemon writer thread), the producers that feed it, and the              *)
(* deploy_localapi orchestrator with its try/finally cleanup; and of       *)
(* synth_tui.eval_job.run_eval_job and                                     *)
(* synth_tui.launcher._ensure_dependencies_installed.                      *)
(*                                                                         *)
(* Threads and tasks of the program:                                       *)
(*   main    the asyncio main task running deploy_localapi                 *)
(*   writer  the daemon thread running LogAggregator._writer_loop          *)
(*   server  the background server thread started by run_server_background *)
(*           (its uvicorn loggers reach QueueLogHandler.emit)              *)
(*                                                                         *)
(* Specifications:                                                         *)
(*   Spec, FairSpec  one run of deploy_localapi                            *)
(*   SinkSpec        the LogAggregator under any caller, entries failing   *)
(*   AdapterSpec     the StreamCapture installed as sys.stdout             *)
(*   ValSpec         the validation step on every module of ValModules     *)
(*   TunnelSpec,                                                           *)
(*   FairTunnelSpec  one run with the tunnel's cloudflared subprocess and  *)
(*                   the task that reads its output                        *)
(*   LoadSpec        a run up to the end of the load, the module writing   *)
(*                   to stdout and stderr while it is loaded               *)
(*   LoggerSpec      the uvicorn loggers after _setup_uvicorn_logging,     *)
(*                   records logged on them                                *)
(*   RaceSpec        two threads writing to one StreamCapture              *)
(*   EvalSpec        one run of run_eval_job                               *)
(*   LauncherSpec    one call of _ensure_dependencies_installed            *)
(***************************************************************************)
EXTENDS Integers, Sequences, FiniteSets, TLC

\* ---------------------------------------------------------------- bounds
\* records the server thread logs through QueueLogHandler in one run
MaxEmit == 1

\* ------------------------------------------------------ program constants
\* acquire_port(8001, on_conflict=FIND_NEW)
PreferredPort == 8001

\* the ports acquire_port can return: the preferred one or the next free one
Ports == {PreferredPort, PreferredPort + 1}

\* a text (message, error, url) is the sequence of the pieces an f-string
\* joins; the rendered string is empty iff every piece is empty
NoText == <<>>
NonEmptyText(t) == \E i \in DOMAIN t : t[i] # ""
\* absent enumeration field of an entry / absent port
NoField == ""
NoPort == 0

\* --deployment-id values the caller can pass (None: not given)
DeploymentIdArgs == {"None"}

\* f"{path.stem}_{_timestamp_for_filename()}"
DerivedDeploymentId == "localapi_2026_01_01_00-00-00"

\* URLs a successful TunneledLocalAPI.create returns
TunnelUrls == {<<"https://t.example">>}

VARIABLES
    \* --- environment and arguments of the run
    hasApiKey,        \* os.environ.get("SYNTH_API_KEY") is truthy
    local_mode,       \* SYNTH_LOCAL_MODE in ("1","true","yes")
    deployment_id,    \* aggregator.deployment_id
    \* --- LogAggregator
    queue,            \* self.queue: entries and None sentinels, FIFO
    _running,         \* self._running
    filesOpen,        \* the two handles of self._exit_stack are open
    wpc,              \* position of the writer thread
    cur,              \* the entry the writer has dequeued and is processing
    line,             \* json.dumps(entry) of the entry being processed
    stdout,           \* lines written to self._original_stdout
    deployFile,       \* lines appended to {id}_deploy_{ts}.jsonl
    serveFile,        \* lines appended to {id}_serve_{ts}.jsonl
    \* --- orchestrator (deploy_localapi)
    pc,               \* position of the main task
    exitPath,         \* how the try block was left
    fatal,            \* the fatal condition the run met ("none" if none)
    cancelRequested,  \* the main task has a pending cancel()
    sysStdout,        \* what sys.stdout is bound to
    sysStderr,        \* what sys.stderr is bound to
    module,           \* the loaded module (descriptor) or NoModule
    port,             \* the port acquire_port returned
    url,              \* the externally reachable url
    handlerInstalled, \* QueueLogHandler attached to the uvicorn loggers
    serverRunning,    \* run_server_background returned
    joinTimedOut,     \* join(timeout=2.0) returned with the writer alive
    \* --- server thread
    nemit,            \* records emitted by the server thread so far
    \* --- history
    submitted,        \* every entry accepted by put(), in put order
    stopQueue,        \* the queue content at the moment stop() was called
    \* --- StreamCapture wrapping sys.stdout
    _buffer,          \* self._buffer: the text after the last newline
    adapterCalls,     \* history: the calls made on the adapter, in order
    \* --- writer failures
    failed,           \* history: seq of the entries whose processing raised
    \* --- _validate_localapi applied to `module`
    validation,       \* what the call returned or raised, and its probes
    \* --- StreamCapture wrapping sys.stderr
    errBuffer,        \* self._buffer of the adapter installed as sys.stderr
    \* --- the tunnel subprocess and _stream_cloudflare_logs
    proc,             \* tunnel.process: its state and its stdout pipe
    reader,           \* position of the task running _stream_cloudflare_logs
    \* --- the logging module
    loggers,          \* level, handlers and propagate flag of each logger
    records,          \* history: the records logged on the server loggers
    \* --- threads inside StreamCapture.write on the stdout adapter
    threads,          \* per thread: its position in write() and its locals
    \* --- eval_job.run_eval_job
    jobpc,            \* position of run_eval_job
    printed,          \* the status lines printed to stdout by _output
    \* --- launcher._ensure_dependencies_installed
    lpc,              \* position of _ensure_dependencies_installed
    linesep,          \* os.linesep of the platform
    package_json,     \* bytes of tui_root/package.json
    package_json0,    \* history: its bytes when the function was called
    package_dist_json, \* bytes of tui_root/package.dist.json, or NoFile
    node_modules,     \* node_modules/solid-js exists
    original_package_json  \* the local of that name: None or the text read

aggVars == <<queue, _running, filesOpen, wpc, cur, line, stdout, deployFile,
             serveFile>>
envVars == <<hasApiKey, local_mode, deployment_id>>
orchVars == <<pc, exitPath, fatal, cancelRequested, sysStdout, sysStderr,
              module, port, url, handlerInstalled, serverRunning, joinTimedOut>>
vars == <<hasApiKey, local_mode, deployment_id, queue, _running, filesOpen,
          wpc, cur, line, stdout, deployFile, serveFile, pc, exitPath,
          fatal, cancelRequested, sysStdout, sysStderr, module, port, url,
          handlerInstalled, serverRunning, joinTimedOut, nemit, submitted,
          stopQueue, _buffer, adapterCalls, failed, validation, errBuffer,
          proc, reader, loggers, records, threads, jobpc, printed, lpc,
          linesep, package_json, package_json0, package_dist_json,
          node_modules, original_package_json>>
\* the logging module's state and the history of the records
logVars == <<loggers, records>>
\* the threads that write through the stdout adapter
raceVars == <<threads>>
\* the variables of one run of deploy_localapi, its sink, adapters, tunnel
\* and logger bridge
deployVars == <<hasApiKey, local_mode, deployment_id, queue, _running,
                filesOpen, wpc, cur, line, stdout, deployFile, serveFile, pc,
                exitPath, fatal, cancelRequested, sysStdout, sysStderr,
                module, port, url, handlerInstalled, serverRunning,
                joinTimedOut, nemit, submitted, stopQueue, _buffer,
                adapterCalls, failed, validation, errBuffer, proc, reader,
                loggers, records>>
\* what is outside the logging module
\* run_eval_job
evalVars == <<jobpc, printed>>
\* _ensure_dependencies_installed and the files it works on
launcherVars == <<lpc, linesep, package_json, package_json0,
                  package_dist_json, node_modules, original_package_json>>
nonLogVars == <<raceVars, evalVars, launcherVars>>
moreVars == <<logVars, nonLogVars>>
\* the variables the deployment run of Spec leaves alone
extVars == <<_buffer, adapterCalls, failed, validation, errBuffer, proc,
            reader, moreVars>>
\* the stderr adapter and the tunnel
restVars == <<errBuffer, proc, reader, moreVars>>

\* ------------------------------------------------------------- entries
\* An entry is the dict a producer builds.  prod and seq are bookkeeping of
\* the model (who called put, and the position of the call in the order in
\* which the queue's mutex admitted the puts); they are not dict keys.
Entry(type, source, st, message, level, error, u, p) ==
    [type |-> type, source |-> source, status |-> st, message |-> message,
     level |-> level, error |-> error, url |-> u, port |-> p,
     deployment_id |-> NoField, prod |-> "", seq |-> 0]

\* LogAggregator.log(source, message, level="INFO") builds this dict
LogDict(source, message) ==
    Entry("log", source, NoField, message, "INFO", NoText, NoText, NoPort)

\* LogAggregator.status(status, **kwargs) builds this dict
StatusDict(st, message, error, u, p) ==
    Entry("status", NoField, st, message, NoField, error, u, p)

\* QueueLogHandler.emit builds this dict
RecordDict(source, levelname, message) ==
    Entry("log", source, NoField, message, levelname, NoText, NoText, NoPort)

\* the sentinel stop() puts on the queue (Python None)
None ==
    Entry("None", NoField, NoField, NoText, NoField, NoText, NoText, NoPort)

Tag(e, prod, n) == [e EXCEPT !.prod = prod, !.seq = n]

\* the entries es as producer prod submits them after n earlier puts
RECURSIVE TagAll(_, _, _)
TagAll(es, prod, n) ==
    IF es = <<>> THEN <<>>
    ELSE <<Tag(Head(es), prod, n + 1)>> \o TagAll(Tail(es), prod, n + 1)

\* ------------------------------------------------------- LogAggregator
\* a queue that hands out the newest entry first
put_lifo(q, entry) == <<entry>> \o q

\* queue.Queue.put as used by LogAggregator.put: the entry joins the tail
put(q, entry) == Append(q, entry)

RECURSIVE PutSeq(_, _)
PutSeq(q, es) ==
    IF es = <<>> THEN q ELSE PutSeq(put(q, Head(es)), Tail(es))

\* producer prod calls put() for each dict of es, in order
Submit(prod, es) ==
    LET tagged == TagAll(es, prod, Len(submitted))
    IN  /\ queue' = PutSeq(queue, tagged)
        /\ submitted' = submitted \o tagged

\* entry["deployment_id"] = self.deployment_id; line = json.dumps(entry)
Stamp(entry) == [entry EXCEPT !.deployment_id = deployment_id]

\* while self._running or not self.queue.empty():
\*     entry = self.queue.get(timeout=0.1)
\* The writer takes the head of the queue when there is one (a None entry is
\* skipped).  With the queue empty, get() times out and the loop condition
\* is evaluated again: the loop ends if the stop flag is set, and goes on
\* waiting otherwise.
WriterGet ==
    /\ wpc = "get"
    /\ IF queue = <<>>
       THEN /\ ~_running
            /\ wpc' = "exited"
            /\ UNCHANGED <<queue, cur>>
       ELSE /\ queue' = Tail(queue)
            /\ IF Head(queue).type = "None"
               THEN wpc' = "get" /\ UNCHANGED cur
               ELSE wpc' = "write" /\ cur' = Head(queue)
    /\ UNCHANGED <<_running, filesOpen, line, stdout, deployFile, serveFile>>
    /\ UNCHANGED <<envVars, orchVars, nemit, submitted, stopQueue>>
    /\ UNCHANGED extVars

\* entry["deployment_id"] = self.deployment_id; line = json.dumps(entry);
\* self._original_stdout.write(line + "\n"); self._original_stdout.flush()
WriterWrite ==
    /\ wpc = "write"
    /\ line' = Stamp(cur)
    /\ stdout' = Append(stdout, line')
    /\ wpc' = "persist"
    /\ UNCHANGED <<queue, _running, filesOpen, cur, deployFile, serveFile>>
    /\ UNCHANGED <<envVars, orchVars, nemit, submitted, stopQueue>>
    /\ UNCHANGED extVars

\* a writer that persists the entry as it was dequeued, serialised again
\* without the deployment id
WriterPersist_Unstamped ==
    /\ wpc = "persist"
    /\ wpc' = "get"
    /\ IF filesOpen
       THEN /\ deployFile' = IF cur.type = "status"
                             THEN Append(deployFile, cur) ELSE deployFile
            /\ serveFile' = IF cur.type = "log"
                            THEN Append(serveFile, cur) ELSE serveFile
       ELSE UNCHANGED <<deployFile, serveFile>>
    /\ cur' = None
    /\ line' = None
    /\ UNCHANGED <<queue, _running, filesOpen, stdout>>
    /\ UNCHANGED <<envVars, orchVars, nemit, submitted, stopQueue>>
    /\ UNCHANGED extVars

\* a writer that appends every line to both files
WriterPersist_BothFiles ==
    /\ wpc = "persist"
    /\ wpc' = "get"
    /\ IF filesOpen
       THEN /\ deployFile' = Append(deployFile, line)
            /\ serveFile' = Append(serveFile, line)
       ELSE UNCHANGED <<deployFile, serveFile>>
    /\ cur' = None
    /\ line' = None
    /\ UNCHANGED <<queue, _running, filesOpen, stdout>>
    /\ UNCHANGED <<envVars, orchVars, nemit, submitted, stopQueue>>
    /\ UNCHANGED extVars

\* append the line to the deploy file (status) or the serve file (log);
\* a write to a closed handle raises ValueError, which `except Exception`
\* swallows
WriterPersist ==
    /\ wpc = "persist"
    /\ wpc' = "get"
    /\ IF filesOpen
       THEN /\ deployFile' = IF cur.type = "status"
                             THEN Append(deployFile, line) ELSE deployFile
            /\ serveFile' = IF cur.type = "log"
                            THEN Append(serveFile, line) ELSE serveFile
       ELSE UNCHANGED <<deployFile, serveFile>>
    /\ cur' = None
    /\ line' = None
    /\ UNCHANGED <<queue, _running, filesOpen, stdout>>
    /\ UNCHANGED <<envVars, orchVars, nemit, submitted, stopQueue>>
    /\ UNCHANGED extVars

_writer_loop == WriterGet \/ WriterWrite \/ WriterPersist


\* LogAggregator.stop(), one action per statement: it runs on the main
\* thread while the writer thread and the server thread keep running.
\* self._running = False
StopSetFlag ==
    /\ pc = "stop"
    /\ _running' = FALSE
    /\ stopQueue' = queue
    /\ pc' = "stop_wake"
    /\ UNCHANGED <<queue, filesOpen, wpc, cur, line, stdout, deployFile,
                   serveFile>>
    /\ UNCHANGED <<envVars, exitPath, fatal, cancelRequested, sysStdout,
                   sysStderr, module, port, url, handlerInstalled,
                   serverRunning, joinTimedOut, nemit, submitted>>
    /\ UNCHANGED extVars

\* self.queue.put(None)
StopWake ==
    /\ pc = "stop_wake"
    /\ queue' = put(queue, None)
    /\ pc' = "stop_join"
    /\ UNCHANGED <<_running, filesOpen, wpc, cur, line, stdout, deployFile,
                   serveFile>>
    /\ UNCHANGED <<envVars, exitPath, fatal, cancelRequested, sysStdout,
                   sysStderr, module, port, url, handlerInstalled,
                   serverRunning, joinTimedOut, nemit, submitted, stopQueue>>
    /\ UNCHANGED extVars

\* self._writer_thread.join(timeout=2.0): returns once the writer has
\* exited, or after 2.0 s with the writer still alive
StopJoin ==
    /\ pc = "stop_join"
    /\ joinTimedOut' = (wpc # "exited")
    /\ pc' = "stop_close"
    /\ UNCHANGED aggVars
    /\ UNCHANGED <<envVars, exitPath, fatal, cancelRequested, sysStdout,
                   sysStderr, module, port, url, handlerInstalled,
                   serverRunning, nemit, submitted, stopQueue>>
    /\ UNCHANGED extVars

\* self._exit_stack.close(): both file handles are closed; stop() and then
\* deploy_localapi return
StopClose ==
    /\ pc = "stop_close"
    /\ filesOpen' = FALSE
    /\ pc' = "returned"
    /\ UNCHANGED <<queue, _running, wpc, cur, line, stdout, deployFile,
                   serveFile>>
    /\ UNCHANGED <<envVars, exitPath, fatal, cancelRequested, sysStdout,
                   sysStderr, module, port, url, handlerInstalled,
                   serverRunning, joinTimedOut, nemit, submitted, stopQueue>>
    /\ UNCHANGED extVars

stop == StopSetFlag \/ StopWake \/ StopJoin \/ StopClose

\* ------------------------------------------------------ the logging module
\* The loggers the bridge is attached to and their ancestors.  A logger has
\* a level, a set of handlers (addHandler adds a handler once) and a
\* propagate flag; "root" is the parent of "uvicorn", "uvicorn" the parent
\* of "uvicorn.access" and "uvicorn.error".
UvicornLoggers == {"uvicorn", "uvicorn.access", "uvicorn.error"}
LoggerNames == UvicornLoggers \cup {"root"}
Parent(name) == IF name = "uvicorn" THEN "root" ELSE "uvicorn"

\* the levels of the logging module, in ascending order
LevelNames == <<"NOTSET", "DEBUG", "INFO", "WARNING", "ERROR">>
LevelNo(levelname) ==
    CHOOSE i \in DOMAIN LevelNames : LevelNames[i] = levelname

\* the loggers of a process that has not configured the uvicorn loggers:
\* the root logger at WARNING, with the handlers given
InitialLoggers(rootHandlers) ==
    [name \in LoggerNames |->
        IF name = "root"
        THEN [level |-> "WARNING", handlers |-> rootHandlers, propagate |-> TRUE]
        ELSE [level |-> "NOTSET", handlers |-> {}, propagate |-> TRUE]]

\* the level of each handler: handler.setLevel(logging.INFO) for the
\* QueueLogHandler; the other handlers filter nothing
HandlerLevel(h) == IF h = "QueueLogHandler" THEN "INFO" ELSE "NOTSET"

\* a setup that leaves the propagate flag of the loggers alone
SetupLoggers_Propagating(l) ==
    [name \in LoggerNames |->
        IF name \in UvicornLoggers
        THEN [level |-> "INFO",
              handlers |-> l[name].handlers \cup {"QueueLogHandler"},
              propagate |-> l[name].propagate]
        ELSE l[name]]

\* for logger_name in ["uvicorn", "uvicorn.access", "uvicorn.error"]:
\*     logger.setLevel(logging.INFO); logger.addHandler(handler)
\*     logger.propagate = False
SetupLoggers(l) ==
    [name \in LoggerNames |->
        IF name \in UvicornLoggers
        THEN [level |-> "INFO",
              handlers |-> l[name].handlers \cup {"QueueLogHandler"},
              propagate |-> FALSE]
        ELSE l[name]]

\* Logger.getEffectiveLevel: the first level that is set, from the logger
\* up through its ancestors
RECURSIVE getEffectiveLevel(_, _)
getEffectiveLevel(l, name) ==
    IF l[name].level # "NOTSET" \/ name = "root" THEN l[name].level
    ELSE getEffectiveLevel(l, Parent(name))

isEnabledFor(l, name, levelname) ==
    LevelNo(levelname) >= LevelNo(getEffectiveLevel(l, name))

\* Logger.callHandlers: the number of times the QueueLogHandler is handed the
\* record: once for each logger, from the one logged on up through its
\* ancestors as long as propagate is set, that has the handler
RECURSIVE callHandlers(_, _, _)
callHandlers(l, name, levelname) ==
    (IF /\ "QueueLogHandler" \in l[name].handlers
        /\ LevelNo(levelname) >= LevelNo(HandlerLevel("QueueLogHandler"))
     THEN 1 ELSE 0)
    + (IF l[name].propagate /\ name # "root"
       THEN callHandlers(l, Parent(name), levelname) ELSE 0)

\* ------------------------------------------------------- QueueLogHandler
\* QueueLogHandler.emit, called on the server thread for a record of one of
\* the uvicorn loggers
emit ==
    /\ serverRunning
    /\ handlerInstalled
    /\ pc # "exited"
    /\ nemit < MaxEmit
    /\ nemit' = nemit + 1
    /\ Submit("server", <<RecordDict("uvicorn", "INFO", <<"request">>)>>)
    /\ UNCHANGED <<_running, filesOpen, wpc, cur, line, stdout, deployFile,
                   serveFile>>
    /\ UNCHANGED <<envVars, orchVars, stopQueue>>
    /\ UNCHANGED extVars

\* ------------------------------------------------------ _validate_localapi
\* What the validator can observe of a loaded module.  An attribute is
\*   [kind |-> "absent" | "not_callable" | "returns" | "raises",
\*    type |-> the Python type name of the result or of the exception,
\*    val  |-> the result when it is an int or a bool (False = 0, True = 1)]
Attr(kind, type, val) == [kind |-> kind, type |-> type, val |-> val]
Absent == Attr("absent", "", 0)
Returns(type, val) == Attr("returns", type, val)
Raises(type) == Attr("raises", type, 0)

\* app: "absent", "FastAPI" or the name of another type; routes: the paths
\* of app.routes; nparams: len(inspect.signature(score_response).parameters)
Module(app, routes, ds, sample, score, nparams) ==
    [app |-> app, routes |-> routes, get_dataset_size |-> ds,
     get_sample |-> sample, score_response |-> score, nparams |-> nparams]

NoModule == Module("absent", {}, Absent, Absent, Absent, 0)

\* the result of the validator: PyNone, or Some(message)
PyNone == <<>>
Some(text) == <<text>>
Truthy(r) == r # PyNone /\ NonEmptyText(r[1])

\* isinstance(result, int): bool is a subclass of int
IsInt(a) == a.type \in {"int", "bool"}
\* isinstance(result, (int, float))
IsNumber(a) == a.type \in {"int", "bool", "float"}
\* f"{result}" of an int or a bool
Repr(a) ==
    IF a.type = "bool" THEN (IF a.val = 0 THEN "False" ELSE "True")
    ELSE ToString(a.val)

\* the exception types `except Exception` does not catch
BaseOnly == {"SystemExit", "KeyboardInterrupt"}
\* calling the attribute raises an exception the validator does not catch
Escapes(a) == a.kind = "raises" /\ a.type \in BaseOnly
\* callable(attr) holds and the validator calls it
Called(a) == a.kind \in {"returns", "raises"}

CheckApp(m) ==
    IF m.app = "absent"
    THEN Some(<<"LocalAPI must define an 'app' variable">>)
    ELSE IF m.app # "FastAPI"
    THEN Some(<<"'app' must be a FastAPI instance, got ", m.app>>)
    ELSE PyNone

\* a route check that names the other path
CheckRoutes_NamesOtherPath(m) ==
    IF "/health" \notin m.routes
    THEN Some(<<"LocalAPI missing ", "/rollout",
                " endpoint (use create_local_api() to create your app)">>)
    ELSE IF "/rollout" \notin m.routes
    THEN Some(<<"LocalAPI missing ", "/health",
                " endpoint (use create_local_api() to create your app)">>)
    ELSE PyNone

CheckRoutes(m) ==
    IF "/health" \notin m.routes
    THEN Some(<<"LocalAPI missing ", "/health",
                " endpoint (use create_local_api() to create your app)">>)
    ELSE IF "/rollout" \notin m.routes
    THEN Some(<<"LocalAPI missing ", "/rollout",
                " endpoint (use create_local_api() to create your app)">>)
    ELSE PyNone

\* a dataset-size check with one handler for every exception
CheckDatasetSize_OneHandler(m) ==
    LET a == m.get_dataset_size IN
    IF ~Called(a) \/ Escapes(a) THEN PyNone
    ELSE IF a.kind = "raises"
    THEN Some(<<"get_dataset_size() failed: ", a.type>>)
    ELSE IF ~IsInt(a)
    THEN Some(<<"get_dataset_size() must return an int, got ", a.type>>)
    ELSE IF a.val <= 0
    THEN Some(<<"get_dataset_size() must return a positive number, got ",
                Repr(a)>>)
    ELSE PyNone

CheckDatasetSize(m) ==
    LET a == m.get_dataset_size IN
    IF ~Called(a) \/ Escapes(a) THEN PyNone
    ELSE IF a.kind = "raises"
    THEN IF a.type = "NotImplementedError"
         THEN Some(<<"get_dataset_size() not implemented: ", a.type>>)
         ELSE Some(<<"get_dataset_size() failed: ", a.type>>)
    ELSE IF ~IsInt(a)
    THEN Some(<<"get_dataset_size() must return an int, got ", a.type>>)
    ELSE IF a.val <= 0
    THEN Some(<<"get_dataset_size() must return a positive number, got ",
                Repr(a)>>)
    ELSE PyNone

CheckGetSample(m) ==
    LET a == m.get_sample IN
    IF ~Called(a) \/ Escapes(a) THEN PyNone
    ELSE IF a.kind = "raises"
    THEN IF a.type = "NotImplementedError"
         THEN Some(<<"get_sample() not implemented: ", a.type>>)
         ELSE Some(<<"get_sample(0) failed: ", a.type>>)
    ELSE IF a.type # "dict"
    THEN Some(<<"get_sample() must return a dict, got ", a.type>>)
    ELSE PyNone

\* a scorer check that rejects a scorer raising on the dummy input
CheckScoreResponse_RejectsErrors(m) ==
    LET a == m.score_response IN
    IF ~Called(a) \/ m.nparams < 0 THEN PyNone
    ELSE IF m.nparams < 2
    THEN Some(<<"score_response() must accept (response, sample), got ",
                ToString(m.nparams)>>)
    ELSE IF a.kind = "raises"
    THEN IF a.type = "NotImplementedError"
         THEN Some(<<"score_response() not implemented: ", a.type>>)
         ELSE Some(<<"score_response() failed: ", a.type>>)
    ELSE IF ~IsNumber(a)
    THEN Some(<<"score_response() must return a number, got ", a.type>>)
    ELSE PyNone

\* m.nparams < 0: inspect.signature(score_response) raises (ValueError or
\* TypeError), outside any try
CheckScoreResponse(m) ==
    LET a == m.score_response IN
    IF ~Called(a) \/ m.nparams < 0 THEN PyNone
    ELSE IF m.nparams < 2
    THEN Some(<<"score_response() must accept (response, sample), got ",
                ToString(m.nparams)>>)
    ELSE IF a.kind = "raises"
    THEN IF a.type = "NotImplementedError"
         THEN Some(<<"score_response() not implemented: ", a.type>>)
         ELSE PyNone
    ELSE IF ~IsNumber(a)
    THEN Some(<<"score_response() must return a number, got ", a.type>>)
    ELSE PyNone

\* One check of the validator: what it returns when it is the one that
\* fails (PyNone: it passes), whether an exception leaves it uncaught, and
\* what it does with the module (its name, then the calls it makes).
Check(name, result, raises, calls) ==
    [name |-> name, result |-> result, raises |-> raises,
     probes |-> <<name>> \o calls]

CheckOfApp(m) == Check("app", CheckApp(m), FALSE, <<>>)
CheckOfRoutes(m) == Check("routes", CheckRoutes(m), FALSE, <<>>)
CheckOfDatasetSize(m) ==
    Check("get_dataset_size", CheckDatasetSize(m),
          Escapes(m.get_dataset_size),
          IF Called(m.get_dataset_size) THEN <<"get_dataset_size()">> ELSE <<>>)
CheckOfGetSample(m) ==
    Check("get_sample", CheckGetSample(m), Escapes(m.get_sample),
          IF Called(m.get_sample) THEN <<"get_sample(0)">> ELSE <<>>)
CheckOfScoreResponse(m) ==
    Check("score_response", CheckScoreResponse(m),
          Called(m.score_response)
              /\ (m.nparams < 0 \/ (m.nparams >= 2 /\ Escapes(m.score_response))),
          IF ~Called(m.score_response) THEN <<>>
          ELSE IF m.nparams < 2 THEN <<"signature(score_response)">>
          ELSE <<"signature(score_response)", "score_response()">>)

\* a validator that probes the sample function before the dataset size
Checks_SampleFirst(m) ==
    <<CheckOfApp(m), CheckOfRoutes(m), CheckOfGetSample(m),
      CheckOfDatasetSize(m), CheckOfScoreResponse(m)>>

\* the checks in the order in which _validate_localapi makes them
Checks(m) ==
    <<CheckOfApp(m), CheckOfRoutes(m), CheckOfDatasetSize(m),
      CheckOfGetSample(m), CheckOfScoreResponse(m)>>

\* the body of _validate_localapi: the checks one after the other; the
\* first that fails returns its message, an uncaught exception leaves the
\* function, and `return None` is reached when every check has passed
RECURSIVE RunChecks(_, _)
RunChecks(cs, probes) ==
    IF cs = <<>>
    THEN [outcome |-> "return", result |-> PyNone, probes |-> probes]
    ELSE LET c == Head(cs) IN
         IF c.raises
         THEN [outcome |-> "raise", result |-> PyNone,
               probes |-> probes \o c.probes]
         ELSE IF c.result # PyNone
         THEN [outcome |-> "return", result |-> c.result,
               probes |-> probes \o c.probes]
         ELSE RunChecks(Tail(cs), probes \o c.probes)

_validate_localapi(m) == RunChecks(Checks(m), <<>>)

\* `validation` before the validator has been called
NotValidated == [outcome |-> "none", result |-> PyNone, probes |-> <<>>]

\* the modules the orchestrator is run on
GoodModule ==
    Module("FastAPI", {"/health", "/rollout"}, Returns("int", 3),
           Returns("dict", 0), Raises("KeyError"), 2)
OrchModules ==
    { GoodModule,
      [GoodModule EXCEPT !.routes = {"/health"}],
      [GoodModule EXCEPT !.get_dataset_size = Returns("int", -1)],
      [GoodModule EXCEPT !.score_response = Raises("NotImplementedError")] }


\* no tunnel has been created, or the tunnel has no process attribute
NoProcess == [state |-> "none", stdout |-> <<>>, written |-> 0, exitMark |-> 0]

\* ------------------------------------------------------- deploy_localapi
\* the writer's and the files' part of the aggregator, which the main task
\* and the server thread never touch
sinkVars == <<_running, filesOpen, wpc, cur, line, stdout, deployFile,
              serveFile>>

\* a file that does not exist
NoFile == <<"<absent>">>

\* no thread is inside StreamCapture.write
Threads == {"t1", "t2"}
IdleThread == [pc |-> "idle", data |-> <<>>, tmp |-> <<>>, line |-> <<>>,
               rest |-> <<>>, calls |-> 0]
NoThreads == [t \in Threads |-> IdleThread]

\* leaving the try block: by `return` after a handled error ("return"), by
\* an exception that propagates ("raise"), by a CancelledError that
\* propagates ("cancelled"), or by reaching its end ("end")
Leave(path, condition) ==
    /\ pc' = "finally"
    /\ exitPath' = path
    /\ fatal' = condition

ErrorStatus(text) == StatusDict("error", NoText, text, NoText, NoPort)

\* aggregator.status("starting", message="Initializing deployment...")
EmitStarting ==
    /\ pc = "start"
    /\ Submit("main", <<StatusDict("starting", <<"Initializing deployment...">>,
                                   NoText, NoText, NoPort)>>)
    /\ pc' = "check_key"
    /\ UNCHANGED <<envVars, sinkVars, exitPath, fatal, cancelRequested,
                   sysStdout, sysStderr, module, port, url, handlerInstalled,
                   serverRunning, joinTimedOut, nemit, stopQueue>>
    /\ UNCHANGED extVars

\* if not os.environ.get("SYNTH_API_KEY"): status error; return
\* the missing-key branch without its `return`
CheckApiKey_FallsThrough ==
    /\ pc = "check_key"
    /\ IF hasApiKey
       THEN UNCHANGED <<queue, submitted>>
       ELSE Submit("main", <<ErrorStatus(
                <<"SYNTH_API_KEY not set - run 'synth auth' or export SYNTH_API_KEY">>)>>)
    /\ pc' = "auth"
    /\ UNCHANGED <<exitPath, fatal>>
    /\ UNCHANGED <<envVars, sinkVars, cancelRequested, sysStdout, sysStderr,
                   module, port, url, handlerInstalled, serverRunning,
                   joinTimedOut, nemit, stopQueue>>
    /\ UNCHANGED extVars

CheckApiKey ==
    /\ pc = "check_key"
    /\ IF hasApiKey
       THEN /\ pc' = "auth"
            /\ UNCHANGED <<queue, submitted, exitPath, fatal>>
       ELSE /\ Submit("main", <<ErrorStatus(
                <<"SYNTH_API_KEY not set - run 'synth auth' or export SYNTH_API_KEY">>)>>)
            /\ Leave("return", "api_key")
    /\ UNCHANGED <<envVars, sinkVars, cancelRequested, sysStdout, sysStderr,
                   module, port, url, handlerInstalled, serverRunning,
                   joinTimedOut, nemit, stopQueue>>
    /\ UNCHANGED extVars

\* log "Getting environment API key..."; ensure_localapi_auth(...) returns
\* the key or raises
EnsureAuth ==
    /\ pc = "auth"
    /\ \E ok \in BOOLEAN :
         IF ok
         THEN /\ Submit("main", <<LogDict("app", <<"Getting environment API key...">>)>>)
              /\ pc' = "check_file"
              /\ UNCHANGED <<exitPath, fatal>>
         ELSE /\ Submit("main", <<LogDict("app", <<"Getting environment API key...">>),
                                  ErrorStatus(<<"Failed to get environment API key: ", "e">>)>>)
              /\ Leave("return", "auth")
    /\ UNCHANGED <<envVars, sinkVars, cancelRequested, sysStdout, sysStderr,
                   module, port, url, handlerInstalled, serverRunning,
                   joinTimedOut, nemit, stopQueue>>
    /\ UNCHANGED extVars

\* a file check that reports the missing file and goes on
CheckFileExists_Continues ==
    /\ pc = "check_file"
    /\ \E exists \in BOOLEAN :
         IF exists
         THEN UNCHANGED <<queue, submitted>>
         ELSE Submit("main", <<ErrorStatus(<<"File not found: ", "localapi.py">>)>>)
    /\ pc' = "capture"
    /\ UNCHANGED <<exitPath, fatal>>
    /\ UNCHANGED <<envVars, sinkVars, cancelRequested, sysStdout, sysStderr,
                   module, port, url, handlerInstalled, serverRunning,
                   joinTimedOut, nemit, stopQueue>>
    /\ UNCHANGED extVars

\* if not path.exists(): status error; return
CheckFileExists ==
    /\ pc = "check_file"
    /\ \E exists \in BOOLEAN :
         IF exists
         THEN /\ pc' = "capture"
              /\ UNCHANGED <<queue, submitted, exitPath, fatal>>
         ELSE /\ Submit("main", <<ErrorStatus(<<"File not found: ", "localapi.py">>)>>)
              /\ Leave("return", "file")
    /\ UNCHANGED <<envVars, sinkVars, cancelRequested, sysStdout, sysStderr,
                   module, port, url, handlerInstalled, serverRunning,
                   joinTimedOut, nemit, stopQueue>>
    /\ UNCHANGED extVars

\* an installation that replaces sys.stdout only
InstallStreamCapture_StdoutOnly ==
    /\ pc = "capture"
    /\ sysStdout' = "capture"
    /\ UNCHANGED sysStderr
    /\ pc' = "load"
    /\ UNCHANGED <<envVars, aggVars, exitPath, fatal, cancelRequested, module,
                   port, url, handlerInstalled, serverRunning, joinTimedOut,
                   nemit, submitted, stopQueue>>
    /\ UNCHANGED extVars

\* sys.stdout = StreamCapture(original_stdout, aggregator, "app")
\* sys.stderr = StreamCapture(original_stderr, aggregator, "app")
InstallStreamCapture ==
    /\ pc = "capture"
    /\ sysStdout' = "capture"
    /\ sysStderr' = "capture"
    /\ pc' = "load"
    /\ UNCHANGED <<envVars, aggVars, exitPath, fatal, cancelRequested, module,
                   port, url, handlerInstalled, serverRunning, joinTimedOut,
                   nemit, submitted, stopQueue>>
    /\ UNCHANGED extVars

\* the outcomes of spec_from_file_location / exec_module
LoadOutcomes == {"ok", "no_spec", "SyntaxError", "ImportError", "Exception"}

LoadError(outcome) ==
    IF outcome = "no_spec"
    THEN <<"Could not load module from: ", "localapi.py">>
    ELSE IF outcome = "SyntaxError"
    THEN <<"Syntax error in ", "localapi.py", ": ", "e">>
    ELSE IF outcome = "ImportError"
    THEN <<"Import error in ", "localapi.py", ": ", "e">>
    ELSE <<"Failed to load ", "localapi.py", ": ", "e">>

\* log "Loading module: ..."; load the module, classifying a load failure
LoadModule ==
    /\ pc = "load"
    /\ \E outcome \in LoadOutcomes :
         IF outcome = "ok"
         THEN /\ Submit("main", <<LogDict("app", <<"Loading module: ", "localapi.py">>)>>)
              /\ \E m \in OrchModules : module' = m
              /\ pc' = "validate"
              /\ UNCHANGED <<exitPath, fatal>>
         ELSE /\ Submit("main", <<LogDict("app", <<"Loading module: ", "localapi.py">>),
                                  ErrorStatus(LoadError(outcome))>>)
              /\ Leave("return", "load")
              /\ UNCHANGED module
    /\ UNCHANGED <<envVars, sinkVars, cancelRequested, sysStdout, sysStderr,
                   port, url, handlerInstalled, serverRunning, joinTimedOut,
                   nemit, stopQueue>>
    /\ UNCHANGED extVars

\* log "Validating LocalAPI module..."; validation_error =
\* _validate_localapi(module, path); if validation_error: status error; return
ValidateModule ==
    /\ pc = "validate"
    /\ validation' = _validate_localapi(module)
    /\ LET validation_error == validation'.result IN
         IF validation'.outcome = "raise"
         THEN /\ Submit("main", <<LogDict("app", <<"Validating LocalAPI module...">>)>>)
              /\ Leave("raise", "validator")
         ELSE IF Truthy(validation_error)
         THEN /\ Submit("main", <<LogDict("app", <<"Validating LocalAPI module...">>),
                                  ErrorStatus(validation_error[1])>>)
              /\ Leave("return", "validation")
         ELSE /\ Submit("main", <<LogDict("app", <<"Validating LocalAPI module...">>)>>)
              /\ pc' = "uvicorn_logging"
              /\ UNCHANGED <<exitPath, fatal>>
    /\ module' = NoModule
    /\ UNCHANGED <<envVars, sinkVars, cancelRequested, sysStdout, sysStderr,
                   port, url, handlerInstalled, serverRunning, joinTimedOut,
                   nemit, stopQueue>>
    /\ UNCHANGED <<_buffer, adapterCalls, failed>>
    /\ UNCHANGED restVars

\* _setup_uvicorn_logging(aggregator)
SetupUvicornLogging ==
    /\ pc = "uvicorn_logging"
    /\ handlerInstalled' = TRUE
    /\ loggers' = SetupLoggers(loggers)
    /\ pc' = "acquire_port"
    /\ UNCHANGED <<envVars, aggVars, exitPath, fatal, cancelRequested,
                   sysStdout, sysStderr, module, port, url, serverRunning,
                   joinTimedOut, nemit, submitted, stopQueue>>
    /\ UNCHANGED <<_buffer, adapterCalls, failed, validation, errBuffer, proc,
                   reader, records, nonLogVars>>

\* port = acquire_port(8001, on_conflict=FIND_NEW): not inside any try, so
\* an exception it raises propagates out of deploy_localapi
AcquirePortFrom(free) ==
    /\ pc = "acquire_port"
    /\ \/ /\ \E p \in free : port' = p
          /\ pc' = "start_server"
          /\ UNCHANGED <<exitPath, fatal>>
       \/ /\ Leave("raise", "port")
          /\ UNCHANGED port
    /\ UNCHANGED <<envVars, aggVars, cancelRequested, sysStdout, sysStderr,
                   module, url, handlerInstalled, serverRunning, joinTimedOut,
                   nemit, submitted, stopQueue>>
    /\ UNCHANGED extVars

AcquirePort == AcquirePortFrom(Ports)

\* the preferred port is free
AcquirePreferredPort == AcquirePortFrom({PreferredPort})

\* log "Starting server on port ..."; run_server_background(app, port)
StartServer ==
    /\ pc = "start_server"
    /\ \E ok \in BOOLEAN :
         IF ok
         THEN /\ Submit("main", <<LogDict("app", <<"Starting server on port ", ToString(port), "...">>)>>)
              /\ serverRunning' = TRUE
              /\ pc' = "health"
              /\ UNCHANGED <<exitPath, fatal>>
         ELSE /\ Submit("main", <<LogDict("app", <<"Starting server on port ", ToString(port), "...">>),
                                  ErrorStatus(<<"Failed to start server: ", "e">>)>>)
              /\ Leave("return", "server")
              /\ UNCHANGED serverRunning
    /\ UNCHANGED <<envVars, sinkVars, cancelRequested, sysStdout, sysStderr,
                   module, port, url, handlerInstalled, joinTimedOut, nemit,
                   stopQueue>>
    /\ UNCHANGED extVars


\* log "Waiting for health check..."; the main task suspends in
\* await wait_for_health_check("localhost", port, ..., timeout=30.0)
BeginHealthCheck ==
    /\ pc = "health"
    /\ Submit("main", <<LogDict("app", <<"Waiting for health check...">>)>>)
    /\ pc' = "health_wait"
    /\ UNCHANGED <<envVars, sinkVars, exitPath, fatal, cancelRequested,
                   sysStdout, sysStderr, module, port, url, handlerInstalled,
                   serverRunning, joinTimedOut, nemit, stopQueue>>
    /\ UNCHANGED extVars

\* EndHealthCheck with `except Exception` also catching the CancelledError
EndHealthCheck_CatchesCancel ==
    /\ pc = "health_wait"
    /\ \/ /\ Submit("main", <<LogDict("app", <<"Health check passed">>)>>)
          /\ pc' = "tunnel"
          /\ UNCHANGED <<exitPath, fatal, cancelRequested>>
       \/ /\ Submit("main", <<ErrorStatus(<<"Health check failed: ", "e">>)>>)
          /\ Leave("return", "health")
          /\ UNCHANGED cancelRequested
       \/ /\ cancelRequested
          /\ cancelRequested' = FALSE
          /\ Submit("main", <<ErrorStatus(<<"Health check failed: ", "">>)>>)
          /\ Leave("return", "none")
    /\ UNCHANGED <<envVars, sinkVars, sysStdout, sysStderr, module, port, url,
                   handlerInstalled, serverRunning, joinTimedOut, nemit,
                   stopQueue>>
    /\ UNCHANGED extVars

\* the await ends: the check passed (log "Health check passed"), it raised
\* (`except Exception`: status error; return), or a pending cancel() was
\* delivered at the suspension (CancelledError is not an Exception: it
\* propagates)
EndHealthCheck ==
    /\ pc = "health_wait"
    /\ \/ /\ Submit("main", <<LogDict("app", <<"Health check passed">>)>>)
          /\ pc' = "tunnel"
          /\ UNCHANGED <<exitPath, fatal, cancelRequested>>
       \/ /\ Submit("main", <<ErrorStatus(<<"Health check failed: ", "e">>)>>)
          /\ Leave("return", "health")
          /\ UNCHANGED cancelRequested
       \/ /\ cancelRequested
          /\ cancelRequested' = FALSE
          /\ Leave("cancelled", "none")
          /\ UNCHANGED <<queue, submitted>>
    /\ UNCHANGED <<envVars, sinkVars, sysStdout, sysStderr, module, port, url,
                   handlerInstalled, serverRunning, joinTimedOut, nemit,
                   stopQueue>>
    /\ UNCHANGED extVars

\* url = f"http://localhost:{port}"
LocalUrl(p) == <<"http://localhost:", ToString(p)>>

\* a tunnel step that does not look at local mode
BeginTunnel_IgnoresLocalMode ==
    /\ pc = "tunnel"
    /\ Submit("main", <<LogDict("cloudflare", <<"Creating Cloudflare tunnel...">>)>>)
    /\ pc' = "tunnel_wait"
    /\ UNCHANGED url
    /\ UNCHANGED <<envVars, sinkVars, exitPath, fatal, cancelRequested,
                   sysStdout, sysStderr, module, port, handlerInstalled,
                   serverRunning, joinTimedOut, nemit, stopQueue>>
    /\ UNCHANGED extVars

\* local mode: url = localhost, log it.  Otherwise log "Creating Cloudflare
\* tunnel..." and suspend in await TunneledLocalAPI.create(...)
BeginTunnel ==
    /\ pc = "tunnel"
    /\ IF local_mode
       THEN /\ url' = LocalUrl(port)
            /\ Submit("main", <<LogDict("app", <<"Local mode enabled, using ">> \o url')>>)
            /\ pc' = "ready"
       ELSE /\ Submit("main", <<LogDict("cloudflare", <<"Creating Cloudflare tunnel...">>)>>)
            /\ pc' = "tunnel_wait"
            /\ UNCHANGED url
    /\ UNCHANGED <<envVars, sinkVars, exitPath, fatal, cancelRequested,
                   sysStdout, sysStderr, module, port, handlerInstalled,
                   serverRunning, joinTimedOut, nemit, stopQueue>>
    /\ UNCHANGED extVars

\* the await ends: the tunnel exists (url = tunnel.url, log "Tunnel
\* created"; if tunnel.process is there, asyncio.create_task(
\* _stream_cloudflare_logs(tunnel.process, aggregator))), creation raised (status error; return), or a pending cancel()
\* was delivered at the suspension
EndTunnelWith(state) ==
    /\ pc = "tunnel_wait"
    /\ \/ /\ \E u \in TunnelUrls : url' = u
          /\ Submit("main", <<LogDict("cloudflare", <<"Tunnel created: ">> \o url')>>)
          /\ proc' = [NoProcess EXCEPT !.state = state]
          /\ reader' = IF state = "alive" THEN "poll" ELSE "none"
          /\ pc' = "ready"
          /\ UNCHANGED <<exitPath, fatal, cancelRequested>>
       \/ /\ Submit("main", <<ErrorStatus(<<"Failed to create tunnel: ", "e">>)>>)
          /\ Leave("return", "tunnel")
          /\ UNCHANGED <<url, cancelRequested, proc, reader>>
       \/ /\ cancelRequested
          /\ cancelRequested' = FALSE
          /\ Leave("cancelled", "none")
          /\ UNCHANGED <<queue, submitted, url, proc, reader>>
    /\ UNCHANGED <<envVars, sinkVars, sysStdout, sysStderr, module, port,
                   handlerInstalled, serverRunning, joinTimedOut, nemit,
                   stopQueue>>
    /\ UNCHANGED <<_buffer, adapterCalls, failed, validation, errBuffer,
                   moreVars>>

\* the tunnel has no process (`hasattr(tunnel, "process") and
\* tunnel.process` is false): no reader task is created
EndTunnel == EndTunnelWith("none")
\* the tunnel runs a cloudflared subprocess: the reader task is created
EndTunnelWithProcess == EndTunnelWith("alive")

\* aggregator.status("ready", url=url, port=port)
\* `ready` reporting the preferred port instead of the acquired one
EmitReady_FixedPort ==
    /\ pc = "ready"
    /\ Submit("main", <<StatusDict("ready", NoText, NoText, url, PreferredPort)>>)
    /\ pc' = "keepalive"
    /\ UNCHANGED <<envVars, sinkVars, exitPath, fatal, cancelRequested,
                   sysStdout, sysStderr, module, port, url, handlerInstalled,
                   serverRunning, joinTimedOut, nemit, stopQueue>>
    /\ UNCHANGED extVars

EmitReady ==
    /\ pc = "ready"
    /\ Submit("main", <<StatusDict("ready", NoText, NoText, url, port)>>)
    /\ pc' = "keepalive"
    /\ UNCHANGED <<envVars, sinkVars, exitPath, fatal, cancelRequested,
                   sysStdout, sysStderr, module, port, url, handlerInstalled,
                   serverRunning, joinTimedOut, nemit, stopQueue>>
    /\ UNCHANGED extVars

\* KeepAliveCancelled without the `except asyncio.CancelledError` handler
KeepAliveCancelled_Unhandled ==
    /\ pc = "keepalive"
    /\ reader \notin {"read", "blocked"}
    /\ cancelRequested
    /\ cancelRequested' = FALSE
    /\ Leave("end", "none")
    /\ UNCHANGED <<queue, submitted>>
    /\ UNCHANGED <<envVars, sinkVars, sysStdout, sysStderr, module, port, url,
                   handlerInstalled, serverRunning, joinTimedOut, nemit,
                   stopQueue>>
    /\ UNCHANGED extVars

\* while True: await asyncio.sleep(1) -- the loop is left only by the
\* CancelledError of a cancel(), which is caught; the event loop delivers
\* it when it is not inside a synchronous call of the reader task:
\* aggregator.status("stopped", message="Deployment stopped")
KeepAliveCancelled ==
    /\ pc = "keepalive"
    /\ reader \notin {"read", "blocked"}
    /\ cancelRequested
    /\ cancelRequested' = FALSE
    /\ Submit("main", <<StatusDict("stopped", <<"Deployment stopped">>,
                                   NoText, NoText, NoPort)>>)
    /\ Leave("end", "none")
    /\ UNCHANGED <<envVars, sinkVars, sysStdout, sysStderr, module, port, url,
                   handlerInstalled, serverRunning, joinTimedOut, nemit,
                   stopQueue>>
    /\ UNCHANGED extVars

\* finally: sys.stdout = original_stdout; sys.stderr = original_stderr;
\* then aggregator.stop()
\* a finally block that forgets sys.stderr
FinallyRestore_StdoutOnly ==
    /\ pc = "finally"
    /\ sysStdout' = "original"
    /\ pc' = "stop"
    /\ UNCHANGED <<envVars, aggVars, exitPath, fatal, cancelRequested,
                   sysStderr, module, port, url, handlerInstalled,
                   serverRunning, joinTimedOut, nemit, submitted, stopQueue>>
    /\ UNCHANGED extVars

\* a finally block that also reports `stopped`, on every exit path
FinallyRestore_EmitsStopped ==
    /\ pc = "finally"
    /\ sysStdout' = "original"
    /\ sysStderr' = "original"
    /\ Submit("main", <<StatusDict("stopped", <<"Deployment stopped">>,
                                   NoText, NoText, NoPort)>>)
    /\ pc' = "stop"
    /\ UNCHANGED <<envVars, sinkVars, exitPath, fatal, cancelRequested, module,
                   port, url, handlerInstalled, serverRunning, joinTimedOut,
                   nemit, stopQueue>>
    /\ UNCHANGED extVars

FinallyRestore ==
    /\ pc = "finally"
    /\ sysStdout' = "original"
    /\ sysStderr' = "original"
    /\ pc' = "stop"
    /\ UNCHANGED <<envVars, aggVars, exitPath, fatal, cancelRequested, module,
                   port, url, handlerInstalled, serverRunning, joinTimedOut,
                   nemit, submitted, stopQueue>>
    /\ UNCHANGED extVars

\* an external cancel() of the main task (asyncio.run cancels it on SIGINT).
\* A cancel() has no effect before the task's next suspension, so one made
\* while the task runs is the same as one made at that suspension.
RequestCancel ==
    /\ pc \in {"health_wait", "tunnel_wait", "keepalive"}
    /\ ~cancelRequested
    /\ cancelRequested' = TRUE
    /\ UNCHANGED <<envVars, aggVars, pc, exitPath, fatal, sysStdout, sysStderr,
                   module, port, url, handlerInstalled, serverRunning,
                   joinTimedOut, nemit, submitted, stopQueue>>
    /\ UNCHANGED extVars

\* main(): asyncio.run cancels the tasks that are left (the reader) and
\* returns, and the interpreter exits; the writer is a daemon thread, so it
\* is abandoned wherever it is
ProcessExit ==
    /\ pc = "returned"
    /\ pc' = "exited"
    /\ wpc' = IF wpc = "exited" THEN "exited" ELSE "killed"
    /\ reader' = IF reader = "none" THEN "none" ELSE "done"
    /\ UNCHANGED <<queue, _running, filesOpen, cur, line, stdout, deployFile,
                   serveFile>>
    /\ UNCHANGED <<envVars, exitPath, fatal, cancelRequested, sysStdout,
                   sysStderr, module, port, url, handlerInstalled,
                   serverRunning, joinTimedOut, nemit, submitted, stopQueue>>
    /\ UNCHANGED <<_buffer, adapterCalls, failed, validation, errBuffer, proc,
                   moreVars>>

\* ----------------------------------------------- _stream_cloudflare_logs
\* The tunnel subprocess (cloudflared) and the asyncio task that reads its
\* stdout.  The task shares the event loop with the main task: it runs only
\* while the main task is suspended, and while it is inside a synchronous
\* call the loop runs nothing else.

\* writes the subprocess makes to its stdout in one run
MaxTunnelWrites == 1

\* what the subprocess writes: a line, a blank line, or text with no
\* newline yet; n is the position of the write among the writes
PipeItem(kind, n) == [kind |-> kind, n |-> n]
ItemText(item) == <<"cloudflared output ", ToString(item.n)>>
EndsPartial(out) == out # <<>> /\ out[Len(out)].kind = "partial"

\* the subprocess writes to its stdout: a newline that ends the pending
\* partial text, or a new line, blank line or partial text
ProcWrites ==
    /\ proc.state = "alive"
    /\ proc.written < MaxTunnelWrites
    /\ IF EndsPartial(proc.stdout)
       THEN proc' = [proc EXCEPT !.stdout[Len(proc.stdout)].kind = "line",
                                 !.written = @ + 1]
       ELSE \E kind \in {"line", "blank", "partial"} :
              proc' = [proc EXCEPT
                         !.stdout = Append(@, PipeItem(kind, proc.written + 1)),
                         !.written = @ + 1]
    /\ UNCHANGED <<envVars, aggVars, orchVars, nemit, submitted, stopQueue>>
    /\ UNCHANGED <<_buffer, adapterCalls, failed, validation, errBuffer, reader,
                   moreVars>>

\* the subprocess exits; exitMark remembers how many entries the sink had
\* accepted by then
ProcExits ==
    /\ proc.state = "alive"
    /\ proc' = [proc EXCEPT !.state = "exited", !.exitMark = Len(submitted)]
    /\ UNCHANGED <<envVars, aggVars, orchVars, nemit, submitted, stopQueue>>
    /\ UNCHANGED <<_buffer, adapterCalls, failed, validation, errBuffer, reader,
                   moreVars>>

TunnelProcess == ProcWrites \/ ProcExits

\* the event loop is free to run a task: the main task is suspended in the
\* keep-alive sleep and the reader is not inside a synchronous call
LoopIdle == pc = "keepalive" /\ reader \notin {"read", "blocked"}

\* a reader whose loop does not look at the state of the subprocess
ReaderPoll_IgnoresExit ==
    /\ reader = "poll"
    /\ LoopIdle
    /\ reader' = "read"
    /\ UNCHANGED <<envVars, aggVars, orchVars, nemit, submitted, stopQueue>>
    /\ UNCHANGED <<_buffer, adapterCalls, failed, validation, errBuffer, proc,
                   moreVars>>

\* while proc.poll() is None: -- evaluated when the loop resumes the task,
\* at its start or after `await asyncio.sleep(0.05)`
ReaderPoll ==
    /\ reader = "poll"
    /\ LoopIdle
    /\ reader' = IF proc.state = "exited" THEN "done" ELSE "read"
    /\ UNCHANGED <<envVars, aggVars, orchVars, nemit, submitted, stopQueue>>
    /\ UNCHANGED <<_buffer, adapterCalls, failed, validation, errBuffer, proc,
                   moreVars>>

\* line = proc.stdout.readline() returns `item`: the task logs the stripped
\* text when it is not empty
ReadlineReturns(item) ==
    /\ IF item.kind = "blank"
       THEN UNCHANGED <<queue, submitted>>
       ELSE Submit("reader", <<LogDict("cloudflare", ItemText(item))>>)
    /\ proc' = [proc EXCEPT !.stdout = Tail(@)]

\* ready, _, _ = select.select([proc.stdout], [], [], 0.1); if ready:
\* line = proc.stdout.readline(); ...; await asyncio.sleep(0.05).
\* Nothing to read: select times out.  A complete line: readline returns
\* it.  Text with no newline: select reports the pipe readable and readline
\* waits for the newline, or for end of file when the subprocess has
\* exited.
ReaderRead ==
    /\ reader = "read"
    /\ IF proc.stdout = <<>>
       THEN /\ reader' = "poll"
            /\ UNCHANGED <<queue, submitted, proc>>
       ELSE IF Head(proc.stdout).kind = "partial" /\ proc.state = "alive"
       THEN /\ reader' = "blocked"
            /\ UNCHANGED <<queue, submitted, proc>>
       ELSE /\ ReadlineReturns(Head(proc.stdout))
            /\ reader' = "poll"
    /\ UNCHANGED <<_running, filesOpen, wpc, cur, line, stdout, deployFile,
                   serveFile>>
    /\ UNCHANGED <<envVars, orchVars, nemit, stopQueue>>
    /\ UNCHANGED <<_buffer, adapterCalls, failed, validation, errBuffer,
                   moreVars>>

\* the readline() the task is waiting in returns: the newline has arrived,
\* or the subprocess has exited and the pipe is at end of file
ReaderUnblocked ==
    /\ reader = "blocked"
    /\ Head(proc.stdout).kind = "line" \/ proc.state = "exited"
    /\ ReadlineReturns(Head(proc.stdout))
    /\ reader' = "poll"
    /\ UNCHANGED <<_running, filesOpen, wpc, cur, line, stdout, deployFile,
                   serveFile>>
    /\ UNCHANGED <<envVars, orchVars, nemit, stopQueue>>
    /\ UNCHANGED <<_buffer, adapterCalls, failed, validation, errBuffer,
                   moreVars>>

_stream_cloudflare_logs == ReaderPoll \/ ReaderRead \/ ReaderUnblocked

deploy_localapi ==
    \/ EmitStarting \/ CheckApiKey \/ EnsureAuth \/ CheckFileExists
    \/ InstallStreamCapture \/ LoadModule \/ ValidateModule
    \/ SetupUvicornLogging \/ AcquirePort \/ StartServer
    \/ BeginHealthCheck \/ EndHealthCheck \/ BeginTunnel \/ EndTunnel
    \/ EmitReady \/ KeepAliveCancelled \/ FinallyRestore \/ stop

\* ------------------------------------------------------------ the system
\* the state LogAggregator.__init__ and the first lines of deploy_localapi
\* leave behind, apart from the arguments, the position of the main task
\* and what sys.stdout and sys.stderr are bound to
\* run_eval_job is not running
NoEvalJob ==
    /\ jobpc = "none"
    /\ printed = <<>>

\* _ensure_dependencies_installed is not running
NoLauncher ==
    /\ lpc = "none"
    /\ linesep = <<"\n">>
    /\ package_json = NoFile
    /\ package_json0 = NoFile
    /\ package_dist_json = NoFile
    /\ node_modules = FALSE
    /\ original_package_json = PyNone

Fresh ==
    /\ queue = <<>>
    /\ _running = TRUE
    /\ filesOpen = TRUE
    /\ wpc = "get"
    /\ cur = None
    /\ line = None
    /\ stdout = <<>>
    /\ deployFile = <<>>
    /\ serveFile = <<>>
    /\ exitPath = "none"
    /\ fatal = "none"
    /\ cancelRequested = FALSE
    /\ port = NoPort
    /\ url = NoText
    /\ handlerInstalled = FALSE
    /\ serverRunning = FALSE
    /\ joinTimedOut = FALSE
    /\ nemit = 0
    /\ submitted = <<>>
    /\ stopQueue = <<>>
    /\ _buffer = <<>>
    /\ adapterCalls = <<>>
    /\ failed = {}
    /\ validation = NotValidated
    /\ errBuffer = <<>>
    /\ proc = NoProcess
    /\ reader = "none"
    /\ loggers = InitialLoggers({})
    /\ records = <<>>
    /\ threads = NoThreads

\* if deployment_id is None: deployment_id = f"{path.stem}_{timestamp}"
DeploymentIdFor(arg) == IF arg = "None" THEN DerivedDeploymentId ELSE arg

Init ==
    /\ hasApiKey \in BOOLEAN
    /\ local_mode \in BOOLEAN
    /\ \E arg \in DeploymentIdArgs : deployment_id = DeploymentIdFor(arg)
    /\ pc = "start"
    /\ sysStdout = "original"
    /\ sysStderr = "original"
    /\ module = NoModule
    /\ Fresh
    /\ NoEvalJob
    /\ NoLauncher

Next ==
    \/ deploy_localapi
    \/ _writer_loop
    \/ emit
    \/ RequestCancel
    \/ ProcessExit

Spec == Init /\ [][Next]_vars

\* The main task is the only asyncio task of the startup sequence and each
\* collaborator it awaits returns or raises (the health check within its
\* timeout), so its next step is always eventually taken.
FairSpec == Spec /\ WF_vars(deploy_localapi)


\* ---------------------------------------- a run with a tunnel subprocess
\* Spec explores the runs whose tunnel has no process to read from.
\* TunnelSpec explores the runs outside local mode, with the API key set,
\* in which the tunnel may run a cloudflared subprocess that the reader
\* task follows.
TunnelInit ==
    /\ hasApiKey = TRUE
    /\ local_mode \in BOOLEAN
    /\ deployment_id = DerivedDeploymentId
    /\ pc = "start"
    /\ sysStdout = "original"
    /\ sysStderr = "original"
    /\ module = NoModule
    /\ Fresh
    /\ NoEvalJob
    /\ NoLauncher

\* deploy_localapi on a host where the preferred port is free and the
\* tunnel collaborator runs cloudflared as a subprocess
TunnelMain ==
    \/ EmitStarting \/ CheckApiKey \/ EnsureAuth \/ CheckFileExists
    \/ InstallStreamCapture \/ LoadModule \/ ValidateModule
    \/ SetupUvicornLogging \/ AcquirePreferredPort \/ StartServer
    \/ BeginHealthCheck \/ EndHealthCheck \/ BeginTunnel
    \/ EndTunnelWithProcess
    \/ EmitReady \/ KeepAliveCancelled \/ FinallyRestore \/ stop

TunnelNext ==
    \/ TunnelMain
    \/ _stream_cloudflare_logs
    \/ TunnelProcess
    \/ _writer_loop
    \/ RequestCancel
    \/ ProcessExit

TunnelSpec == TunnelInit /\ [][TunnelNext]_vars

\* The main task's next step is always eventually taken (as in FairSpec);
\* the event loop resumes the reader task whenever it is idle and the
\* task's sleep is over, a readline() returns once its line or the end of
\* file is there; and once deploy_localapi has returned, asyncio.run
\* returns and the interpreter exits.
FairTunnelSpec ==
    /\ TunnelSpec
    /\ WF_vars(TunnelMain)
    /\ WF_vars(_stream_cloudflare_logs)
    /\ WF_vars(ProcessExit)

\* ------------------------------------- the LogAggregator under any caller
\* LogAggregator is a public class: put(entry) takes any dict, from any
\* caller, and the deployment id is whatever the caller of deploy_localapi
\* passed.  SinkSpec drives one aggregator through put() and stop() with
\* the dicts of ClientDicts, and lets the processing of an entry raise.

\* put() calls made on the aggregator in one run
MaxPut == 3
\* entries whose processing raises in one run
MaxFail == 1

\* deployment_id arguments: not given, the empty string, a given id
CallerDeploymentIds == {"None", "", "dep-1"}

\* dicts a caller can pass to put(): a status, a log, a dict of a type the
\* aggregator does not know, and a log that already has a deployment_id key
ClientDicts ==
    { StatusDict("starting", NoText, NoText, NoText, NoPort),
      LogDict("app", <<"hello">>),
      Entry("metric", "app", NoField, <<"m">>, NoField, NoText, NoText, NoPort),
      [LogDict("app", <<"mine">>) EXCEPT !.deployment_id = "producer-id"] }

\* a caller calls aggregator.put(entry)
CallPut ==
    /\ pc = "client"
    /\ Len(submitted) < MaxPut
    /\ \E d \in ClientDicts : Submit("client", <<d>>)
    /\ UNCHANGED <<_running, filesOpen, wpc, cur, line, stdout, deployFile,
                   serveFile>>
    /\ UNCHANGED <<envVars, orchVars, nemit, stopQueue>>
    /\ UNCHANGED extVars

\* the owner of the aggregator calls aggregator.stop()
CallStop ==
    /\ pc = "client"
    /\ pc' = "stop"
    /\ UNCHANGED <<envVars, aggVars, exitPath, fatal, cancelRequested,
                   sysStdout, sysStderr, module, port, url, handlerInstalled,
                   serverRunning, joinTimedOut, nemit, submitted, stopQueue>>
    /\ UNCHANGED extVars

\* a writer in which an exception ends the loop
WriterWriteRaises_EndsLoop ==
    /\ wpc = "write"
    /\ Cardinality(failed) < MaxFail
    /\ failed' = failed \cup {cur.seq}
    /\ wpc' = "exited"
    /\ cur' = None
    /\ line' = None
    /\ UNCHANGED <<queue, _running, filesOpen, stdout, deployFile, serveFile>>
    /\ UNCHANGED <<envVars, orchVars, nemit, submitted, stopQueue>>
    /\ UNCHANGED <<_buffer, adapterCalls, validation>>
    /\ UNCHANGED restVars

\* json.dumps(entry) or the write to the primary stream raises: nothing is
\* written for the entry; `except Exception: pass` and the loop goes on
WriterWriteRaises ==
    /\ wpc = "write"
    /\ Cardinality(failed) < MaxFail
    /\ failed' = failed \cup {cur.seq}
    /\ wpc' = "get"
    /\ cur' = None
    /\ line' = None
    /\ UNCHANGED <<queue, _running, filesOpen, stdout, deployFile, serveFile>>
    /\ UNCHANGED <<envVars, orchVars, nemit, submitted, stopQueue>>
    /\ UNCHANGED <<_buffer, adapterCalls, validation>>
    /\ UNCHANGED restVars

\* the write to the open deploy or serve file raises, after the line went
\* to the primary stream: `except Exception: pass` and the loop goes on
WriterPersistRaises ==
    /\ wpc = "persist"
    /\ filesOpen
    /\ cur.type \in {"status", "log"}
    /\ Cardinality(failed) < MaxFail
    /\ failed' = failed \cup {cur.seq}
    /\ wpc' = "get"
    /\ cur' = None
    /\ line' = None
    /\ UNCHANGED <<queue, _running, filesOpen, stdout, deployFile, serveFile>>
    /\ UNCHANGED <<envVars, orchVars, nemit, submitted, stopQueue>>
    /\ UNCHANGED <<_buffer, adapterCalls, validation>>
    /\ UNCHANGED restVars

SinkInit ==
    /\ hasApiKey = TRUE
    /\ local_mode = FALSE
    /\ \E arg \in CallerDeploymentIds : deployment_id = DeploymentIdFor(arg)
    /\ pc = "client"
    /\ sysStdout = "original"
    /\ sysStderr = "original"
    /\ module = NoModule
    /\ Fresh
    /\ NoEvalJob
    /\ NoLauncher

SinkNext ==
    \/ CallPut
    \/ CallStop
    \/ stop
    \/ _writer_loop
    \/ WriterWriteRaises
    \/ WriterPersistRaises
    \/ ProcessExit

SinkSpec == SinkInit /\ [][SinkNext]_vars

\* ------------------------------------------------------- StreamCapture
\* The adapter installed as sys.stdout: StreamCapture(original_stdout,
\* aggregator, "app").  A text is the sequence of its characters.  The
\* wrapped original is the stdout the process started with, which is the
\* stream sys.__stdout__ the writer writes to: what the adapter passes
\* through lands on `stdout`, as a raw item between the writer's lines.

\* calls made on the adapter in one run
MaxCalls == 3

NL == "\n"
\* str.isspace
IsSpace(c) == c \in {" ", NL, "\t", "\r"}

RECURSIVE rstrip(_)
rstrip(t) ==
    IF t = <<>> THEN <<>>
    ELSE IF IsSpace(t[Len(t)]) THEN rstrip(SubSeq(t, 1, Len(t) - 1))
    ELSE t

RECURSIVE lstrip(_)
lstrip(t) ==
    IF t = <<>> THEN <<>>
    ELSE IF IsSpace(Head(t)) THEN lstrip(Tail(t))
    ELSE t

strip(t) == lstrip(rstrip(t))

\* "\n" in text
HasNewline(t) == \E i \in DOMAIN t : t[i] = NL
\* text.split("\n", 1) of a text that has a newline
Split1(t) ==
    LET k == CHOOSE i \in DOMAIN t :
                 t[i] = NL /\ \A j \in 1..(i - 1) : t[j] # NL
    IN  <<SubSeq(t, 1, k - 1), SubSeq(t, k + 1, Len(t))>>

\* a loop that forwards every line, blank or not
RECURSIVE DrainLines_ForwardsBlank(_)
DrainLines_ForwardsBlank(buffer) ==
    IF ~HasNewline(buffer) THEN [logged |-> <<>>, buffer |-> buffer]
    ELSE LET parts == Split1(buffer)
             rest == DrainLines_ForwardsBlank(parts[2])
         IN  [rest EXCEPT
                !.logged = <<LogDict("app", rstrip(parts[1]))>> \o @]

\* while "\n" in self._buffer:
\*     line, self._buffer = self._buffer.split("\n", 1)
\*     if line.strip(): self.aggregator.log(self.source, line.rstrip())
\* gives the dicts passed to log(), in order, and the buffer left
RECURSIVE DrainLines(_)
DrainLines(buffer) ==
    IF ~HasNewline(buffer) THEN [logged |-> <<>>, buffer |-> buffer]
    ELSE LET parts == Split1(buffer)
             rest == DrainLines(parts[2])
         IN  IF strip(parts[1]) # <<>>
             THEN [rest EXCEPT
                     !.logged = <<LogDict("app", rstrip(parts[1]))>> \o @]
             ELSE rest

\* what original.write(data) puts on the wrapped stream: the text, as it is
RawText(data) ==
    Entry("raw", NoField, NoField, data, NoField, NoText, NoText, NoPort)

\* texts the intercepted code writes
Chunks ==
    { <<>>, <<"a">>, <<"b">>, <<" ">>, <<NL>>, <<"a", " ", NL>>,
      <<NL, "b">>, <<"a", NL, "b", NL, "c">> }

WriteCall(data) == [op |-> "write", data |-> data]
FlushCall == [op |-> "flush", data |-> <<>>]

\* a write that passes only non-empty data through
write_SkipsEmpty(data) ==
    /\ sysStdout = "capture"
    /\ Len(adapterCalls) < MaxCalls
    /\ adapterCalls' = Append(adapterCalls, WriteCall(data))
    /\ LET r == DrainLines(IF data # <<>> THEN _buffer \o data ELSE _buffer)
       IN  /\ _buffer' = r.buffer
           /\ Submit("adapter", r.logged)
    /\ stdout' = IF data # <<>> THEN Append(stdout, RawText(data)) ELSE stdout
    /\ UNCHANGED <<_running, filesOpen, wpc, cur, line, deployFile, serveFile>>
    /\ UNCHANGED <<envVars, orchVars, nemit, stopQueue, failed, validation>>
    /\ UNCHANGED restVars

\* StreamCapture.write(data), called by the code whose output is captured
write(data) ==
    /\ sysStdout = "capture"
    /\ Len(adapterCalls) < MaxCalls
    /\ adapterCalls' = Append(adapterCalls, WriteCall(data))
    /\ LET r == DrainLines(IF data # <<>> THEN _buffer \o data ELSE _buffer)
       IN  /\ _buffer' = r.buffer
           /\ Submit("adapter", r.logged)
    /\ stdout' = Append(stdout, RawText(data))
    /\ UNCHANGED <<_running, filesOpen, wpc, cur, line, deployFile, serveFile>>
    /\ UNCHANGED <<envVars, orchVars, nemit, stopQueue, failed, validation>>
    /\ UNCHANGED restVars

\* a flush that forwards the buffer and keeps it
flush_KeepsBuffer ==
    /\ sysStdout = "capture"
    /\ Len(adapterCalls) < MaxCalls
    /\ adapterCalls' = Append(adapterCalls, FlushCall)
    /\ IF strip(_buffer) # <<>>
       THEN /\ Submit("adapter", <<LogDict("app", rstrip(_buffer))>>)
            /\ UNCHANGED _buffer
       ELSE UNCHANGED <<queue, submitted, _buffer>>
    /\ UNCHANGED <<_running, filesOpen, wpc, cur, line, stdout, deployFile,
                   serveFile>>
    /\ UNCHANGED <<envVars, orchVars, nemit, stopQueue, failed, validation>>
    /\ UNCHANGED restVars

\* StreamCapture.flush(): if self._buffer.strip(): log it, rstripped, and
\* clear the buffer; then self.original.flush()
flush ==
    /\ sysStdout = "capture"
    /\ Len(adapterCalls) < MaxCalls
    /\ adapterCalls' = Append(adapterCalls, FlushCall)
    /\ IF strip(_buffer) # <<>>
       THEN /\ Submit("adapter", <<LogDict("app", rstrip(_buffer))>>)
            /\ _buffer' = <<>>
       ELSE UNCHANGED <<queue, submitted, _buffer>>
    /\ UNCHANGED <<_running, filesOpen, wpc, cur, line, stdout, deployFile,
                   serveFile>>
    /\ UNCHANGED <<envVars, orchVars, nemit, stopQueue, failed, validation>>
    /\ UNCHANGED restVars

\* the aggregator and the adapter as constructed, the adapter installed and
\* the captured code about to run
AdapterInit ==
    /\ hasApiKey = TRUE
    /\ local_mode = FALSE
    /\ deployment_id = DerivedDeploymentId
    /\ pc = "load"
    /\ sysStdout = "capture"
    /\ sysStderr = "capture"
    /\ module = NoModule
    /\ Fresh
    /\ NoEvalJob
    /\ NoLauncher

AdapterNext ==
    \/ \E data \in Chunks : write(data)
    \/ flush
    \/ _writer_loop

AdapterSpec == AdapterInit /\ [][AdapterNext]_vars

\* ------------------------------------------------ the validator's inputs
\* ValSpec runs the validation step of deploy_localapi on every module of
\* ValModules.
ValApps == {"absent", "FastAPI", "str"}
ValRoutes == SUBSET {"/health", "/rollout"}
ValDatasetSizes ==
    { Absent, Attr("not_callable", "int", 3), Returns("int", 3),
      Returns("int", 0), Returns("int", -1), Returns("bool", 1),
      Returns("str", 0),
      Raises("NotImplementedError"), Raises("ValueError"),
      Raises("SystemExit") }
ValSamples ==
    { Absent, Returns("dict", 0), Returns("list", 0),
      Raises("NotImplementedError"), Raises("KeyError"), Raises("SystemExit") }
ValScores ==
    { Absent, Returns("float", 0), Returns("str", 0),
      Raises("NotImplementedError"), Raises("KeyError"), Raises("SystemExit") }
\* len(params) of score_response; -1: inspect.signature raises
ValParamCounts == {-1, 1, 2}
ValModules ==
    { Module(app, routes, ds, sample, score, n) :
        app \in ValApps, routes \in ValRoutes, ds \in ValDatasetSizes,
        sample \in ValSamples, score \in ValScores, n \in ValParamCounts }

\* deploy_localapi has loaded a module and is about to validate it
ValInit ==
    /\ hasApiKey = TRUE
    /\ local_mode = FALSE
    /\ deployment_id = DerivedDeploymentId
    /\ pc = "validate"
    /\ sysStdout = "capture"
    /\ sysStderr = "capture"
    /\ module \in ValModules
    /\ Fresh
    /\ NoEvalJob
    /\ NoLauncher

ValNext == ValidateModule

ValSpec == ValInit /\ [][ValNext]_vars

\* ------------------------------------------------ output during the load
\* The load step with the output of the module's top-level code.  The code
\* runs on the main thread inside exec_module and writes with print() or
\* sys.stdout.write / sys.stderr.write, that is to whatever sys.stdout and
\* sys.stderr are bound to at that time.  LoadSpec is a run of
\* deploy_localapi up to the end of the load and, when the run ends there
\* or before, through its cleanup.

\* writes the module's top-level code makes in one load
MaxLoadWrites == 2

\* texts the module writes
LoadChunks == { <<"a">>, <<"a", " ", NL>>, <<NL, "b">> }

ModuleWriteCall(chan, data) == [op |-> "write", data |-> data, chan |-> chan]

\* aggregator.log("app", f"Loading module: {path.name}");
\* spec = importlib.util.spec_from_file_location("localapi", path): with no
\* spec or no loader, status error and return; else the module is executed
LoadBegin ==
    /\ pc = "load"
    /\ \E found \in BOOLEAN :
         IF found
         THEN /\ Submit("main", <<LogDict("app", <<"Loading module: ", "localapi.py">>)>>)
              /\ pc' = "exec"
              /\ UNCHANGED <<exitPath, fatal>>
         ELSE /\ Submit("main", <<LogDict("app", <<"Loading module: ", "localapi.py">>),
                                  ErrorStatus(LoadError("no_spec"))>>)
              /\ Leave("return", "load")
    /\ UNCHANGED <<envVars, sinkVars, cancelRequested, sysStdout, sysStderr,
                   module, port, url, handlerInstalled, serverRunning,
                   joinTimedOut, nemit, stopQueue>>
    /\ UNCHANGED extVars

\* the module's code writes data to sys.stdout or to sys.stderr.  Bound to
\* a StreamCapture, the call is StreamCapture.write(data): the complete
\* lines go to the aggregator and the data to the wrapped stream.  Bound to
\* the original stream, the data goes to the stream and nowhere else.  (The
\* stream behind sys.stderr is not part of the state.)
ModuleWrite(chan, data) ==
    /\ pc = "exec"
    /\ Len(adapterCalls) < MaxLoadWrites
    /\ adapterCalls' = Append(adapterCalls, ModuleWriteCall(chan, data))
    /\ LET bound == IF chan = "stdout" THEN sysStdout ELSE sysStderr
           buf == IF chan = "stdout" THEN _buffer ELSE errBuffer
           r == IF bound = "capture"
                THEN DrainLines(IF data # <<>> THEN buf \o data ELSE buf)
                ELSE [logged |-> <<>>, buffer |-> buf]
       IN  /\ _buffer' = IF chan = "stdout" THEN r.buffer ELSE _buffer
           /\ errBuffer' = IF chan = "stderr" THEN r.buffer ELSE errBuffer
           /\ Submit(chan, r.logged)
    /\ stdout' = IF chan = "stdout" THEN Append(stdout, RawText(data))
                 ELSE stdout
    /\ UNCHANGED <<_running, filesOpen, wpc, cur, line, deployFile, serveFile>>
    /\ UNCHANGED <<envVars, orchVars, nemit, stopQueue, failed, validation,
                   proc, reader, moreVars>>

\* spec.loader.exec_module(module) returns, or raises and the except
\* clauses classify the exception: status error and return
LoadEnd ==
    /\ pc = "exec"
    /\ \E outcome \in LoadOutcomes \ {"no_spec"} :
         IF outcome = "ok"
         THEN /\ \E m \in OrchModules : module' = m
              /\ pc' = "validate"
              /\ UNCHANGED <<queue, submitted, exitPath, fatal>>
         ELSE /\ Submit("main", <<ErrorStatus(LoadError(outcome))>>)
              /\ Leave("return", "load")
              /\ UNCHANGED module
    /\ UNCHANGED <<envVars, sinkVars, cancelRequested, sysStdout, sysStderr,
                   port, url, handlerInstalled, serverRunning, joinTimedOut,
                   nemit, stopQueue>>
    /\ UNCHANGED extVars

LoadInit ==
    /\ hasApiKey \in BOOLEAN
    /\ local_mode = FALSE
    /\ deployment_id = DerivedDeploymentId
    /\ pc = "start"
    /\ sysStdout = "original"
    /\ sysStderr = "original"
    /\ module = NoModule
    /\ Fresh
    /\ NoEvalJob
    /\ NoLauncher

\* deploy_localapi up to the end of the load, with its finally block
LoadMain ==
    \/ EmitStarting \/ CheckApiKey \/ EnsureAuth \/ CheckFileExists
    \/ InstallStreamCapture
    \/ LoadBegin
    \/ \E chan \in {"stdout", "stderr"}, data \in LoadChunks :
          ModuleWrite(chan, data)
    \/ LoadEnd
    \/ FinallyRestore \/ stop

LoadNext ==
    \/ LoadMain
    \/ _writer_loop
    \/ ProcessExit

LoadSpec == LoadInit /\ [][LoadNext]_vars

\* --------------------------------------------------------- Logger Bridge
\* The bridge under the records of the server: LoggerSpec starts where
\* deploy_localapi is about to call _setup_uvicorn_logging and lets the
\* server's threads log records on the three uvicorn loggers, before and
\* after the call, some of them failing inside emit().

\* records logged in one run
MaxRecords == 2

\* the levels the records have
RecordLevels == {"DEBUG", "INFO", "ERROR"}

\* what goes wrong inside emit(): nothing, self.format(record) raises, or
\* self.aggregator.put(...) raises (an Exception in both cases)
EmitFailures == {"none", "format", "put"}

\* QueueLogHandler.emit(record): the dict it puts, and whether the call
\* raises to the logging module and so to the code that logged
QueueLogHandler_emit(levelname, message, failure) ==
    IF failure = "none"
    THEN [put |-> <<RecordDict("uvicorn", levelname, message)>>,
          raised |-> FALSE]
    ELSE [put |-> <<>>, raised |-> FALSE]

RECURSIVE Repeat(_, _)
Repeat(s, n) == IF n = 0 THEN <<>> ELSE s \o Repeat(s, n - 1)

\* logging.getLogger(name).log(level, ...) on a thread of the server: if
\* the logger is enabled for the level, callHandlers hands the record to
\* the handlers, and each call of the QueueLogHandler is an emit()
log_record(name, levelname, failure) ==
    /\ Len(records) < MaxRecords
    /\ LET n == Len(records) + 1
           calls == IF isEnabledFor(loggers, name, levelname)
                    THEN callHandlers(loggers, name, levelname) ELSE 0
           r == QueueLogHandler_emit(levelname,
                                     <<"record ", ToString(n)>>, failure)
       IN  /\ records' = Append(records,
                 [logger |-> name, levelname |-> levelname,
                  failure |-> failure, bridged |-> handlerInstalled,
                  raised |-> (calls > 0 /\ r.raised)])
           /\ Submit("server", Repeat(r.put, calls))
    /\ UNCHANGED <<_running, filesOpen, wpc, cur, line, stdout, deployFile,
                   serveFile>>
    /\ UNCHANGED <<envVars, orchVars, nemit, stopQueue>>
    /\ UNCHANGED <<_buffer, adapterCalls, failed, validation, errBuffer, proc,
                   reader, loggers, nonLogVars>>

LoggerInit ==
    /\ hasApiKey = TRUE
    /\ local_mode = FALSE
    /\ deployment_id = DerivedDeploymentId
    /\ pc = "uvicorn_logging"
    /\ sysStdout = "capture"
    /\ sysStderr = "capture"
    /\ module = NoModule
    /\ Fresh
    /\ NoEvalJob
    /\ NoLauncher

LoggerNext ==
    \/ SetupUvicornLogging
    \/ \E name \in UvicornLoggers, levelname \in RecordLevels,
          failure \in EmitFailures : log_record(name, levelname, failure)
    \/ _writer_loop

LoggerSpec == LoggerInit /\ [][LoggerNext]_vars

\* ------------------------------------------- StreamCapture.write, threads
\* sys.stdout is process-wide: the main thread and the threads of the
\* server print through the same StreamCapture, whose write() reads and
\* updates self._buffer with no lock.  A thread can be preempted between
\* any two reads or writes of the attribute; RaceSpec runs two threads
\* through write(), one step per access of self._buffer.

\* write() calls each thread makes in one run
MaxThreadWrites == 1

\* the line each thread prints: whole, newline-terminated, non-blank
ThreadLine(t) == IF t = "t1" THEN <<"a", NL>> ELSE <<"b", NL>>

ThreadWriteCall(t, data) == [op |-> "write", data |-> data, thread |-> t]

RaceFrame ==
    /\ UNCHANGED <<_running, filesOpen, wpc, cur, line, deployFile, serveFile>>
    /\ UNCHANGED <<envVars, orchVars, nemit, stopQueue, failed, validation,
                   errBuffer, proc, reader, logVars>>
    /\ UNCHANGED <<evalVars, launcherVars>>

\* def write(self, data): if data:
WriteEnter(t) ==
    /\ threads[t].pc = "idle"
    /\ threads[t].calls < MaxThreadWrites
    /\ sysStdout = "capture"
    /\ adapterCalls' = Append(adapterCalls, ThreadWriteCall(t, ThreadLine(t)))
    /\ threads' = [threads EXCEPT ![t].pc = "load", ![t].data = ThreadLine(t)]
    /\ UNCHANGED <<queue, submitted, stdout, _buffer>>
    /\ RaceFrame

\* self._buffer += data, its read: the value of self._buffer is loaded
WriteLoad(t) ==
    /\ threads[t].pc = "load"
    /\ threads' = [threads EXCEPT ![t].pc = "store", ![t].tmp = _buffer]
    /\ UNCHANGED <<queue, submitted, stdout, _buffer, adapterCalls>>
    /\ RaceFrame

\* self._buffer += data, its write: the loaded value plus data is stored
WriteStore(t) ==
    /\ threads[t].pc = "store"
    /\ _buffer' = threads[t].tmp \o threads[t].data
    /\ threads' = [threads EXCEPT ![t].pc = "test"]
    /\ UNCHANGED <<queue, submitted, stdout, adapterCalls>>
    /\ RaceFrame

\* while "\n" in self._buffer:
WriteTest(t) ==
    /\ threads[t].pc = "test"
    /\ threads' = [threads EXCEPT
                     ![t].pc = IF HasNewline(_buffer) THEN "split" ELSE "pass"]
    /\ UNCHANGED <<queue, submitted, stdout, _buffer, adapterCalls>>
    /\ RaceFrame

\* line, ... = self._buffer.split("\n", 1): the buffer is read again; a
\* buffer that no longer holds a newline splits into one part and the
\* unpacking raises ValueError out of write()
WriteSplit(t) ==
    /\ threads[t].pc = "split"
    /\ IF HasNewline(_buffer)
       THEN threads' = [threads EXCEPT ![t].pc = "assign",
                                       ![t].line = Split1(_buffer)[1],
                                       ![t].rest = Split1(_buffer)[2]]
       ELSE threads' = [threads EXCEPT ![t].pc = "raised"]
    /\ UNCHANGED <<queue, submitted, stdout, _buffer, adapterCalls>>
    /\ RaceFrame

\* ..., self._buffer = ...: the second part is stored
WriteAssign(t) ==
    /\ threads[t].pc = "assign"
    /\ _buffer' = threads[t].rest
    /\ threads' = [threads EXCEPT ![t].pc = "log"]
    /\ UNCHANGED <<queue, submitted, stdout, adapterCalls>>
    /\ RaceFrame

\* if line.strip(): self.aggregator.log(self.source, line.rstrip())
WriteLog(t) ==
    /\ threads[t].pc = "log"
    /\ IF strip(threads[t].line) # <<>>
       THEN Submit(t, <<LogDict("app", rstrip(threads[t].line))>>)
       ELSE UNCHANGED <<queue, submitted>>
    /\ threads' = [threads EXCEPT ![t].pc = "test"]
    /\ UNCHANGED <<stdout, _buffer, adapterCalls>>
    /\ RaceFrame

\* return self.original.write(data)
WritePassThrough(t) ==
    /\ threads[t].pc = "pass"
    /\ stdout' = Append(stdout, RawText(threads[t].data))
    /\ threads' = [threads EXCEPT ![t].pc = "idle",
                                  ![t].calls = threads[t].calls + 1]
    /\ UNCHANGED <<queue, submitted, _buffer, adapterCalls>>
    /\ RaceFrame

ThreadWrite(t) ==
    \/ WriteEnter(t) \/ WriteLoad(t) \/ WriteStore(t) \/ WriteTest(t)
    \/ WriteSplit(t) \/ WriteAssign(t) \/ WriteLog(t) \/ WritePassThrough(t)

RaceInit ==
    /\ hasApiKey = TRUE
    /\ local_mode = FALSE
    /\ deployment_id = DerivedDeploymentId
    /\ pc = "load"
    /\ sysStdout = "capture"
    /\ sysStderr = "capture"
    /\ module = NoModule
    /\ Fresh
    /\ NoEvalJob
    /\ NoLauncher

RaceNext ==
    \/ \E t \in Threads : ThreadWrite(t)
    \/ _writer_loop

RaceSpec == RaceInit /\ [][RaceNext]_vars

\* ------------------------------------------------- eval_job.run_eval_job
\* One run of run_eval_job(task_app_url, env_name).  The collaborators
\* (ensure_localapi_auth, EvalJobConfig, EvalJob.submit and
\* poll_until_complete of synth_ai) return or raise; a line is what _output
\* prints: json.dumps(data) of a dict with a "status" key.

\* progress callbacks poll_until_complete makes in one run
MaxProgress == 3
\* the largest count of completed seeds a callback reports
MaxCompleted == 2

\* len(DEFAULT_SEEDS)
DefaultSeeds == 20

\* {"status": "error", "error": ...}
ErrorLine(text) == [status |-> "error", error |-> text, completed |-> 0,
                    total |-> 0]
\* the submitted and completed lines; the job id and the result's numbers
\* are left out
StatusLine(st) == [status |-> st, error |-> NoText, completed |-> 0,
                   total |-> 0]
\* {"status": "progress", "completed": completed, "total": total}
ProgressLine(completed, total) ==
    [status |-> "progress", error |-> NoText, completed |-> completed,
     total |-> total]

\* what the backend reports in status_data: whether the "completed" key is
\* there, and its count
StatusData == [has_completed : BOOLEAN, completed : 0..MaxCompleted]

_output(data) == printed' = Append(printed, data)

EvalFrame ==
    /\ UNCHANGED deployVars
    /\ UNCHANGED <<raceVars, launcherVars>>

\* api_key = os.environ.get("SYNTH_API_KEY"); if not api_key: error; return
EvalCheckApiKey ==
    /\ jobpc = "start"
    /\ IF hasApiKey
       THEN jobpc' = "auth" /\ UNCHANGED printed
       ELSE /\ _output(ErrorLine(<<"SYNTH_API_KEY not set">>))
            /\ jobpc' = "returned"
    /\ EvalFrame

\* task_app_api_key = ensure_localapi_auth(...), in try / except Exception
EvalEnsureAuth ==
    /\ jobpc = "auth"
    /\ \E ok \in BOOLEAN :
         IF ok
         THEN jobpc' = "config" /\ UNCHANGED printed
         ELSE /\ _output(ErrorLine(<<"Failed to get task app API key: ", "e">>))
              /\ jobpc' = "returned"
    /\ EvalFrame

\* config = EvalJobConfig(task_app_url=..., ...): not inside any try, so an
\* exception it raises (a value it rejects) propagates out of run_eval_job
EvalBuildConfig ==
    /\ jobpc = "config"
    /\ \E ok \in BOOLEAN :
         jobpc' = IF ok THEN "submit" ELSE "raised"
    /\ UNCHANGED printed
    /\ EvalFrame

\* job = EvalJob(config); job_id = job.submit(); print submitted -- or the
\* except clause: error; return
EvalSubmit ==
    /\ jobpc = "submit"
    /\ \E ok \in BOOLEAN :
         IF ok
         THEN /\ _output(StatusLine("submitted"))
              /\ jobpc' = "poll"
         ELSE /\ _output(ErrorLine(<<"Failed to submit job: ", "e">>))
              /\ jobpc' = "returned"
    /\ EvalFrame

CountLines(st) ==
    Cardinality({i \in DOMAIN printed : printed[i].status = st})

\* poll_until_complete calls on_status(status_data):
\* completed = status_data.get("completed", 0);
\* total = status_data.get("total", len(DEFAULT_SEEDS)), the backend
\* sending no total; a progress line
EvalOnStatus ==
    /\ jobpc = "poll"
    /\ CountLines("progress") < MaxProgress
    /\ \E status_data \in StatusData :
         _output(ProgressLine(IF status_data.has_completed
                                 THEN status_data.completed ELSE 0,
                              DefaultSeeds))
    /\ UNCHANGED jobpc
    /\ EvalFrame

\* poll_until_complete returns a result that succeeded (completed) or did
\* not (error: result.error or "Job failed"), or it raises (error)
EvalPollEnd ==
    /\ jobpc = "poll"
    /\ \E outcome \in {"succeeded", "failed", "raised"} :
         _output(IF outcome = "succeeded" THEN StatusLine("completed")
                 ELSE IF outcome = "failed" THEN ErrorLine(<<"Job failed">>)
                 ELSE ErrorLine(<<"Polling failed: ", "e">>))
    /\ jobpc' = "returned"
    /\ EvalFrame

run_eval_job ==
    \/ EvalCheckApiKey \/ EvalEnsureAuth \/ EvalBuildConfig \/ EvalSubmit
    \/ EvalOnStatus \/ EvalPollEnd

EvalInit ==
    /\ hasApiKey \in BOOLEAN
    /\ local_mode = FALSE
    /\ deployment_id = DerivedDeploymentId
    /\ pc = "none"
    /\ sysStdout = "original"
    /\ sysStderr = "original"
    /\ module = NoModule
    /\ Fresh
    /\ NoLauncher
    /\ jobpc = "start"
    /\ printed = <<>>

EvalNext == run_eval_job

EvalSpec == EvalInit /\ [][EvalNext]_vars


\* ------------------------------- launcher._ensure_dependencies_installed
\* One call of _ensure_dependencies_installed(tui_root, runtime).  A file
\* is the sequence of its characters, NoFile when it does not exist;
\* node_modules stands for "node_modules and node_modules/solid-js exist".

\* characters of a package.json: any other character, CR and LF
FileChars == {"x", "\r", "\n"}
\* length of the longest package.json
MaxFileLen == 2
FileContents ==
    UNION { [1..n -> FileChars] : n \in 1..MaxFileLen }
\* the content of package.dist.json when it is there
DistContents == { <<"d", "\n">> }
\* os.linesep: "\n" on POSIX, "\r\n" on Windows
LineSeps == { <<"\n">>, <<"\r", "\n">> }

\* Path.read_text(): open(mode="r"), newline=None, so universal newlines:
\* "\r\n" and a lone "\r" are read as "\n"
RECURSIVE read_text(_)
read_text(content) ==
    IF content = <<>> THEN <<>>
    ELSE IF Head(content) = "\r"
         THEN IF Len(content) >= 2 /\ content[2] = "\n"
              THEN <<"\n">> \o read_text(Tail(Tail(content)))
              ELSE <<"\n">> \o read_text(Tail(content))
         ELSE <<Head(content)>> \o read_text(Tail(content))

\* Path.write_text(text): open(mode="w"), newline=None, so every "\n" is
\* written as os.linesep
RECURSIVE write_text(_, _)
write_text(text, sep) ==
    IF text = <<>> THEN <<>>
    ELSE (IF Head(text) = "\n" THEN sep ELSE <<Head(text)>>)
         \o write_text(Tail(text), sep)

LauncherFrame ==
    /\ UNCHANGED deployVars
    /\ UNCHANGED <<raceVars, evalVars>>
    /\ UNCHANGED <<linesep, package_json0, package_dist_json>>

\* if not package_json.exists(): raise RuntimeError
CheckPackageJson ==
    /\ lpc = "start"
    /\ lpc' = IF package_json = NoFile THEN "raised" ELSE "check_modules"
    /\ UNCHANGED <<package_json, node_modules, original_package_json>>
    /\ LauncherFrame

\* if not node_modules.exists() or not (node_modules / "solid-js").exists():
\* otherwise the function returns
CheckNodeModules ==
    /\ lpc = "check_modules"
    /\ lpc' = IF node_modules THEN "returned" ELSE "backup"
    /\ UNCHANGED <<package_json, node_modules, original_package_json>>
    /\ LauncherFrame

\* use_dist = package_dist_json.exists(); original_package_json = None;
\* if use_dist: original_package_json = package_json.read_text()
\* (the text read is never empty here, so it differs from PyNone)
BackupPackageJson ==
    /\ lpc = "backup"
    /\ IF package_dist_json # NoFile
       THEN /\ original_package_json' = read_text(package_json)
            /\ lpc' = "copy"
       ELSE /\ original_package_json' = PyNone
            /\ lpc' = "install"
    /\ UNCHANGED <<package_json, node_modules>>
    /\ LauncherFrame

\* shutil.copy(package_dist_json, package_json), before the try block: the
\* copy is made, or it raises with the destination not opened or opened
\* (truncated) and not written
CopyDist ==
    /\ lpc = "copy"
    /\ \/ /\ package_json' = package_dist_json
          /\ lpc' = "install"
       \/ /\ package_json' \in {package_json, <<>>}
          /\ lpc' = "raised"
    /\ UNCHANGED <<node_modules, original_package_json>>
    /\ LauncherFrame

\* the try block: subprocess.run([runtime, "install"], ...) returns 0 (and
\* has installed solid-js or not), returns non-zero (RuntimeError) or
\* raises
RunInstall ==
    /\ lpc = "install"
    /\ \E outcome \in {"ok", "nonzero", "raises"} :
         IF outcome = "ok"
         THEN /\ node_modules' \in BOOLEAN
              /\ lpc' = "finally"
         ELSE /\ UNCHANGED node_modules
              /\ lpc' = "finally_raising"
    /\ UNCHANGED <<package_json, original_package_json>>
    /\ LauncherFrame

\* finally: if use_dist and original_package_json is not None:
\*     package_json.write_text(original_package_json)
\* and then the exception of the try block, if any, propagates
RestorePackageJson ==
    /\ lpc \in {"finally", "finally_raising"}
    /\ IF package_dist_json # NoFile /\ original_package_json # PyNone
       THEN package_json' = write_text(original_package_json, linesep)
       ELSE UNCHANGED package_json
    /\ lpc' = IF lpc = "finally" THEN "verify" ELSE "raised"
    /\ UNCHANGED <<node_modules, original_package_json>>
    /\ LauncherFrame

\* if not node_modules.exists() or not (...).exists(): raise RuntimeError
VerifyInstall ==
    /\ lpc = "verify"
    /\ lpc' = IF node_modules THEN "returned" ELSE "raised"
    /\ UNCHANGED <<package_json, node_modules, original_package_json>>
    /\ LauncherFrame

_ensure_dependencies_installed ==
    \/ CheckPackageJson \/ CheckNodeModules \/ BackupPackageJson
    \/ CopyDist \/ RunInstall \/ RestorePackageJson \/ VerifyInstall

LauncherInit ==
    /\ hasApiKey = FALSE
    /\ local_mode = FALSE
    /\ deployment_id = DerivedDeploymentId
    /\ pc = "none"
    /\ sysStdout = "original"
    /\ sysStderr = "original"
    /\ module = NoModule
    /\ Fresh
    /\ NoEvalJob
    /\ lpc = "start"
    /\ linesep \in LineSeps
    /\ package_json \in FileContents \cup {NoFile}
    /\ package_json0 = package_json
    /\ package_dist_json \in DistContents \cup {NoFile}
    /\ node_modules \in BOOLEAN
    /\ original_package_json = PyNone

LauncherNext == _ensure_dependencies_installed

LauncherSpec == LauncherInit /\ [][LauncherNext]_vars

\* =============================================================== claims
IsStatus(e) == e.type = "status"
\* the status entries submitted so far, in order, and their status values
Statuses == SelectSeq(submitted, IsStatus)
StatusValues == [i \in 1..Len(Statuses) |-> Statuses[i].status]
LastStatus == IF Statuses = <<>> THEN "" ELSE Statuses[Len(Statuses)].status
CountStatus(st) == Cardinality({i \in 1..Len(Statuses) : Statuses[i].status = st})
IsPrefix(s, t) == Len(s) <= Len(t) /\ \A i \in 1..Len(s) : s[i] = t[i]
\* the entry has a line on the primary stream
Written(e) == \E i \in DOMAIN stdout : stdout[i].seq = e.seq
\* deploy_localapi has returned
Finished == pc \in {"returned", "exited"}

\* C1: the lines on the primary stream keep each producer's submission
\* order: of two written entries of one producer, the one submitted first
\* is written first.
C1_ProducerOrderPreserved ==
    \A i, j \in DOMAIN stdout :
        (i < j /\ stdout[i].prod = stdout[j].prod) => stdout[i].seq < stdout[j].seq

\* a line of the server thread written between two lines of the main task,
\* the server's entry having overtaken none of them
C1_Witness ==
    \E i, j, k \in DOMAIN stdout :
        /\ i < j /\ j < k
        /\ stdout[i].prod = "main"
        /\ stdout[j].prod = "server"
        /\ stdout[k].prod = "main"

\* C2: every entry accepted by put() is written to the primary stream by
\* the time the process ends normally (only the None sentinel is discarded).
C2_EveryAcceptedEntryWritten ==
    pc = "exited" => \A k \in DOMAIN submitted : Written(submitted[k])

\* C3: every entry that is in the queue when stop() is called is written to
\* the primary stream.
C3_QueuedAtStopWritten ==
    pc = "exited" => \A k \in DOMAIN stopQueue : Written(stopQueue[k])

\* C4 (as stated): on every exit path the terminal status event is
\* `stopped`, and the sink is shut down.
C4_StoppedOnEveryExitPath ==
    Finished => (LastStatus = "stopped" /\ ~_running /\ ~filesOpen)

\* C4 (amended): on every exit path the sink is shut down; `stopped` is the
\* terminal status exactly when the keep-alive wait was cancelled, a handled
\* error ends with `error` as the terminal status, and an exception or a
\* cancellation that propagates adds no terminal status.
C4_TerminalStatusByExitPath ==
    Finished =>
        /\ ~_running /\ ~filesOpen
        /\ (LastStatus = "stopped") <=> (exitPath = "end")
        /\ (LastStatus = "error") <=> (exitPath = "return")
        /\ CountStatus("stopped") <= 1

C4_Witness == pc = "returned" /\ exitPath = "end" /\ LastStatus = "stopped"

\* C5: a run that met a fatal startup condition has submitted exactly one
\* `error` status, with a non-empty error text.
C5_ExactlyOneErrorPerFatal ==
    (Finished /\ fatal # "none") =>
        /\ CountStatus("error") = 1
        /\ \A i \in 1..Len(Statuses) :
              Statuses[i].status = "error" => NonEmptyText(Statuses[i].error)

\* C6: when deploy_localapi has returned, on whatever path, sys.stdout and
\* sys.stderr are the original objects again and stop() has run; and once
\* stop() has been called no further status event is submitted.
C6_CleanupOnEveryExit ==
    /\ [](Finished => /\ sysStdout = "original"
                      /\ sysStderr = "original"
                      /\ ~_running /\ ~filesOpen)
    /\ [][(pc \in {"stop", "stop_wake", "stop_join", "stop_close", "returned"})
             => Statuses' = Statuses]_vars

\* the adapters were installed and the run was left by a propagating
\* CancelledError
C6_Witness ==
    pc = "returned" /\ exitPath = "cancelled" /\ Statuses # <<>>

\* C7: the status values submitted, in order, are a prefix of
\* starting, ready, stopped or of starting, error.
C7_StatusSequence ==
    \/ IsPrefix(StatusValues, <<"starting", "ready", "stopped">>)
    \/ IsPrefix(StatusValues, <<"starting", "error">>)

C7_Witness ==
    /\ StatusValues = <<"starting", "ready", "stopped">>
    /\ pc = "returned"

\* C8 (as stated): without SYNTH_API_KEY the whole session submits one
\* event, an `error` status.
C8_OnlyErrorWithoutKey ==
    (~hasApiKey /\ pc = "exited") =>
        /\ Len(submitted) = 1
        /\ submitted[1].type = "status"
        /\ submitted[1].status = "error"

\* C8 (amended): without SYNTH_API_KEY the whole session submits exactly two
\* events, the `starting` status and then one `error` status with a
\* non-empty error text; no other status and no log entry is submitted.
C8_StartingThenErrorWithoutKey ==
    ~hasApiKey =>
        /\ \A k \in DOMAIN submitted : IsStatus(submitted[k])
        /\ IsPrefix(StatusValues, <<"starting", "error">>)
        /\ Finished => /\ StatusValues = <<"starting", "error">>
                       /\ NonEmptyText(Statuses[2].error)

C8_Witness == ~hasApiKey /\ pc = "exited" /\ Len(submitted) = 2


\* the one `ready` status entry, once it has been submitted
ReadyEntry == Statuses[2]
ReadyAsClaimed ==
    /\ ReadyEntry.status = "ready"
    /\ NonEmptyText(ReadyEntry.url)
    /\ ReadyEntry.port = port
    /\ port \in Ports

\* C9: a run in which the module loads and validates and every collaborator
\* succeeds reaches the keep-alive wait having submitted `starting` and then
\* exactly one `ready`, whose url is non-empty and whose port is the
\* acquired port; it leaves the keep-alive wait only by a cancellation,
\* which submits exactly one `stopped` before deploy_localapi returns; and
\* the startup sequence never hangs: every run reaches the keep-alive wait
\* unless a step fails or is cancelled.
C9_EndToEnd ==
    /\ [](pc = "keepalive" =>
            /\ StatusValues = <<"starting", "ready">>
            /\ ReadyAsClaimed)
    /\ []((Finished /\ exitPath = "end") =>
            /\ StatusValues = <<"starting", "ready", "stopped">>
            /\ ReadyAsClaimed)
    /\ [][(pc = "keepalive" /\ pc' # "keepalive") =>
            /\ cancelRequested
            /\ pc' = "finally"
            /\ StatusValues' = <<"starting", "ready", "stopped">>]_vars
    /\ <>(pc = "keepalive" \/ exitPath # "none")

\* a cancelled run on the port next to the preferred one has returned
C9_Witness ==
    /\ pc = "returned"
    /\ exitPath = "end"
    /\ port = PreferredPort + 1
    /\ StatusValues = <<"starting", "ready", "stopped">>

\* a pending cancel() takes effect in this step
CancelTakesEffect == cancelRequested /\ ~cancelRequested'

C11_DeploymentIdOnEveryLine ==
    \A i \in DOMAIN stdout :
        /\ stdout[i].deployment_id = deployment_id
        /\ stdout[i].deployment_id # ""

\* C12: once stop() has been called put() accepts nothing, so that the
\* writer never exits with an entry left in the queue.
C12_NothingQueuedAfterWriterExit ==
    wpc = "exited" => \A i \in DOMAIN queue : queue[i].type = "None"

\* C13: the writer is the only writer of the primary stream: every item on
\* it is one complete JSON line of an entry, and nothing else (the
\* adapter's pass-through write in particular) puts text on it.
C13_OnlyWriterOnPrimaryStream ==
    \A i \in DOMAIN stdout :
        /\ stdout[i].type # "raw"
        /\ \E k \in DOMAIN submitted : submitted[k].seq = stdout[i].seq

\* the entry has been through the writer: written, or its processing raised
Processed(e) == Written(e) \/ e.seq \in failed

\* C14: a failure while one entry is processed does not end the writer
\* loop: the step that fails leaves the writer at the head of its loop with
\* the queue as it was, and the loop does not end before every entry
\* queued behind the failing one has been dequeued and written.
C14_FailureDoesNotEndWriterLoop ==
    [][ /\ failed' # failed =>
            wpc' = "get" /\ queue' = queue /\ _running' = _running
        /\ (wpc # "exited" /\ wpc' = "exited") =>
            /\ queue = <<>>
            /\ \A i \in DOMAIN submitted : Processed(submitted[i]) ]_vars

\* the processing of the first entry raised and the entry queued behind it
\* has been written
C14_Witness ==
    /\ 1 \in failed
    /\ Len(submitted) >= 2
    /\ Written(submitted[2])

\* C15: the lines of the deploy file come from status entries and the lines
\* of the serve file from log entries; no entry has a line in both files,
\* and an entry of any other type has a line in neither.
C15_PersistenceRoutedByType ==
    /\ \A i \in DOMAIN deployFile : deployFile[i].type = "status"
    /\ \A i \in DOMAIN serveFile : serveFile[i].type = "log"
    /\ \A i \in DOMAIN deployFile : \A j \in DOMAIN serveFile :
           deployFile[i].seq # serveFile[j].seq
    /\ \A k \in DOMAIN submitted :
           submitted[k].type \notin {"status", "log"} =>
               /\ \A i \in DOMAIN deployFile : deployFile[i].seq # submitted[k].seq
               /\ \A j \in DOMAIN serveFile : serveFile[j].seq # submitted[k].seq

\* a status entry, a log entry and an entry of another type have all been
\* through the writer with the files open
C15_Witness ==
    /\ deployFile # <<>>
    /\ serveFile # <<>>
    /\ \E k \in DOMAIN submitted :
           /\ submitted[k].type = "metric"
           /\ Written(submitted[k])
           /\ cur.seq # submitted[k].seq
           /\ filesOpen

\* --- what the claims about the adapter speak of
\* the calls so far are write() calls only
NoFlushYet == \A i \in DOMAIN adapterCalls : adapterCalls[i].op = "write"
\* the concatenation of the data of the write() calls, in call order
RECURSIVE Concat(_)
Concat(calls) ==
    IF calls = <<>> THEN <<>> ELSE Head(calls).data \o Concat(Tail(calls))
\* the messages of the entries the adapter forwarded, in order
Forwarded == [i \in DOMAIN submitted |-> submitted[i].message]
\* the positions of the newlines of a text, and the one before position p
Newlines(t) == {i \in DOMAIN t : t[i] = NL}
PrevNewline(t, p) ==
    IF \E q \in Newlines(t) : q < p
    THEN CHOOSE q \in Newlines(t) :
             q < p /\ \A r \in Newlines(t) : r < p => r <= q
    ELSE 0
\* the line of t that the newline at p terminates
LineEndingAt(t, p) == SubSeq(t, PrevNewline(t, p) + 1, p - 1)
NonBlank(t) == \E i \in DOMAIN t : ~IsSpace(t[i])
\* t without its trailing whitespace
TrimRight(t) ==
    IF NonBlank(t)
    THEN SubSeq(t, 1, CHOOSE i \in DOMAIN t :
                        ~IsSpace(t[i]) /\ \A j \in (i + 1)..Len(t) : IsSpace(t[j]))
    ELSE <<>>
RECURSIVE Ascending(_)
Ascending(S) ==
    IF S = {} THEN <<>>
    ELSE LET m == CHOOSE x \in S : \A y \in S : x <= y
         IN  <<m>> \o Ascending(S \ {m})
\* the non-blank newline-terminated lines of t, in order, right-trimmed
NonBlankLines(t) ==
    LET ends == Ascending({p \in Newlines(t) : NonBlank(LineEndingAt(t, p))})
    IN  [i \in DOMAIN ends |-> TrimRight(LineEndingAt(t, ends[i]))]
\* the text after the last newline of t
AfterLastNewline(t) == SubSeq(t, PrevNewline(t, Len(t) + 1) + 1, Len(t))

\* C16: after any sequence of write() chunks with no flush in between, the
\* entries forwarded are exactly the non-blank newline-terminated lines of
\* the concatenated text, in order and without trailing whitespace, and the
\* buffer holds the text after the last newline, however the text was cut
\* into chunks.
C16_ForwardedLinesIndependentOfChunking ==
    NoFlushYet =>
        /\ Forwarded = NonBlankLines(Concat(adapterCalls))
        /\ _buffer = AfterLastNewline(Concat(adapterCalls))

\* three chunks, the first line of the text cut across two of them, two
\* lines or more forwarded and an unterminated rest in the buffer
C16_Witness ==
    /\ NoFlushYet
    /\ Len(adapterCalls) = 3
    /\ ~HasNewline(adapterCalls[1].data)
    /\ NonBlank(adapterCalls[1].data)
    /\ Len(Forwarded) >= 2
    /\ _buffer # <<>>

\* C17: flush() forwards nothing when the buffer is empty, and a flush()
\* that comes right after a flush() forwards nothing more.
C17_FlushIdempotent ==
    [][ ( /\ Len(adapterCalls') = Len(adapterCalls) + 1
          /\ adapterCalls'[Len(adapterCalls')].op = "flush"
          /\ \/ _buffer = <<>>
             \/ /\ adapterCalls # <<>>
                /\ adapterCalls[Len(adapterCalls)].op = "flush" )
        => submitted' = submitted ]_vars

\* a flush that forwarded the buffered text, followed by a second flush
C17_Witness ==
    /\ Len(adapterCalls) = 3
    /\ adapterCalls[1].op = "write"
    /\ adapterCalls[2].op = "flush"
    /\ adapterCalls[3].op = "flush"
    /\ Len(submitted) = 1

\* the texts passed through to the wrapped stream, in order
IsRaw(e) == e.type = "raw"
PassedThrough ==
    LET raw == SelectSeq(stdout, IsRaw) IN [i \in DOMAIN raw |-> raw[i].message]
IsWrite(c) == c.op = "write"
WriteData ==
    LET w == SelectSeq(adapterCalls, IsWrite) IN [i \in DOMAIN w |-> w[i].data]

\* C18: every write(data) passes data, unmodified, to the wrapped stream,
\* once: the texts on the wrapped stream are the data of the write() calls,
\* one per call and in call order, whether data is empty, blank, or
\* without a newline.
C18_PassThroughExactlyOnce == PassedThrough = WriteData

\* an empty write, a blank line and a text without newline have been written
C18_Witness ==
    /\ \E i \in DOMAIN adapterCalls : adapterCalls[i] = WriteCall(<<>>)
    /\ \E i \in DOMAIN adapterCalls : adapterCalls[i] = WriteCall(<<NL>>)
    /\ \E i \in DOMAIN adapterCalls : adapterCalls[i] = WriteCall(<<"a">>)

\* --- what the claims about the validator speak of
\* the checks in the order the claim gives them
ClaimedOrder ==
    <<"app", "routes", "get_dataset_size", "get_sample", "score_response">>
\* the calls into the module that belong to each check
CallsOfCheck ==
    [app |-> {}, routes |-> {},
     get_dataset_size |-> {"get_dataset_size()"},
     get_sample |-> {"get_sample(0)"},
     score_response |-> {"signature(score_response)", "score_response()"}]
IsCheckName(p) == \E i \in DOMAIN ClaimedOrder : ClaimedOrder[i] = p
\* the checks a run of the validator made, in the order it made them
ChecksRun(v) == SelectSeq(v.probes, IsCheckName)
\* what check `name` says of module m when it is looked at on its own
Alone(m, name) ==
    CHOOSE c \in {CheckOfApp(m), CheckOfRoutes(m), CheckOfDatasetSize(m),
                  CheckOfGetSample(m), CheckOfScoreResponse(m)} : c.name = name
Position(p, seq) == CHOOSE i \in DOMAIN seq : seq[i] = p

\* run v of the validator on module m is as the claim says
AsClaimed(m, v) ==
    LET run == ChecksRun(v)
        n == Len(run)
    IN  \* the checks are made in the fixed order, none skipped
        /\ n >= 1
        /\ run = SubSeq(ClaimedOrder, 1, n)
        \* the scorer's parameter count comes before its invocation
        /\ \A i, j \in DOMAIN v.probes :
             (v.probes[i] = "signature(score_response)"
                 /\ v.probes[j] = "score_response()") => i < j
        \* every check before the last one made has passed
        /\ \A k \in 1..(n - 1) :
             Alone(m, run[k]).result = PyNone /\ ~Alone(m, run[k]).raises
        \* a message returned is the message of the last check made
        /\ v.result # PyNone => v.result = Alone(m, run[n]).result
        \* a check that was not made has made no call into the module
        /\ \A k \in (n + 1)..Len(ClaimedOrder) : \A i \in DOMAIN v.probes :
             v.probes[i] \notin CallsOfCheck[ClaimedOrder[k]]
        \* the run stops at the first check that fails
        /\ (Alone(m, run[n]).result # PyNone \/ Alone(m, run[n]).raises)
               \/ n = Len(ClaimedOrder)
        \* None is returned exactly when no check fails
        /\ v.outcome = "return" =>
             (v.result = PyNone <=>
                \A k \in DOMAIN ClaimedOrder :
                    Alone(m, ClaimedOrder[k]).result = PyNone)

\* C19: the validator makes its checks in a fixed order (app present and of
\* the framework type, required endpoints, dataset size, sample, scorer
\* parameter count and then scorer invocation) and returns the message of
\* the first check that fails; once a check has failed no later check is
\* made and no later call into the module happens; None is returned
\* exactly when no check fails.
C19_FirstFailureOnlyInFixedOrder ==
    [][validation' # validation => AsClaimed(module, validation')]_vars

\* the dataset-size check failed after its call into the module, and
\* neither the sample function nor the scorer was touched
C19_Witness ==
    /\ validation.outcome = "return"
    /\ validation.result # PyNone
    /\ validation.probes = <<"app", "routes", "get_dataset_size",
                              "get_dataset_size()">>

\* the message names the path
Mentions(text, path) == \E i \in DOMAIN text : text[i] = path
RequiredRoutes == {"/health", "/rollout"}

\* C20: validating a module whose FastAPI app lacks /health or /rollout
\* returns a non-empty error message that mentions a path which is missing
\* from the app.
C20_MissingRouteNamed ==
    [][ ( /\ validation' # validation
          /\ module.app = "FastAPI"
          /\ RequiredRoutes \ module.routes # {} )
        => /\ validation'.outcome = "return"
           /\ Truthy(validation'.result)
           /\ \E path \in RequiredRoutes \ module.routes :
                  Mentions(validation'.result[1], path) ]_vars

\* the app had /health and lacked /rollout, and the message says /rollout
C20_Witness ==
    /\ validation.outcome = "return"
    /\ Truthy(validation.result)
    /\ Mentions(validation.result[1], "/rollout")
    /\ validation.probes = <<"app", "routes">>

\* --- the accessor checks
\* every check the validator makes before check `name` passes on m
PassesBefore(m, name) ==
    \A k \in 1..(Position(name, ClaimedOrder) - 1) :
        /\ Alone(m, ClaimedOrder[k]).result = PyNone
        /\ ~Alone(m, ClaimedOrder[k]).raises
\* the fixed text a returned message starts with
Prefix(v) == v.result[1][1]
ReturnsMessage(v, prefix) ==
    v.outcome = "return" /\ v.result # PyNone /\ Prefix(v) = prefix

DatasetSizeMessages ==
    [not_implemented |-> "get_dataset_size() not implemented: ",
     failed |-> "get_dataset_size() failed: ",
     type |-> "get_dataset_size() must return an int, got ",
     range |-> "get_dataset_size() must return a positive number, got "]
SampleMessages ==
    [not_implemented |-> "get_sample() not implemented: ",
     failed |-> "get_sample(0) failed: ",
     type |-> "get_sample() must return a dict, got "]
PairwiseDistinct(f) == \A x, y \in DOMAIN f : x # y => f[x] # f[y]

\* how the claim classifies what calling the accessor did; any exception
\* in `caught` other than the not-implemented signal is a generic failure.
\* A bool is an int in Python (True is 1), so it is not a non-integer.
DatasetSizeClass(a, caught) ==
    IF a.kind = "raises" /\ a.type = "NotImplementedError" THEN "not_implemented"
    ELSE IF a.kind = "raises" /\ a.type \in caught THEN "failed"
    ELSE IF a.kind = "returns" /\ a.type \notin {"int", "bool"} THEN "type"
    ELSE IF a.kind = "returns" /\ a.val <= 0 THEN "range"
    ELSE "other"
SampleClass(a, caught) ==
    IF a.kind = "raises" /\ a.type = "NotImplementedError" THEN "not_implemented"
    ELSE IF a.kind = "raises" /\ a.type \in caught THEN "failed"
    ELSE IF a.kind = "returns" /\ a.type # "dict" THEN "type"
    ELSE "other"

\* the exception types the accessors of ValModules raise
RaisedTypes ==
    {a.type : a \in {b \in ValDatasetSizes \cup ValSamples \cup ValScores :
                        b.kind = "raises"}}

\* the validation step classifies both accessors as the claim says, the
\* generic failure being any exception of `caught`
Classified(caught) ==
    /\ PairwiseDistinct(DatasetSizeMessages)
    /\ PairwiseDistinct(SampleMessages)
    /\ (PassesBefore(module, "get_dataset_size")
            /\ DatasetSizeClass(module.get_dataset_size, caught) # "other")
        => ReturnsMessage(validation',
             DatasetSizeMessages[DatasetSizeClass(module.get_dataset_size, caught)])
    /\ (PassesBefore(module, "get_sample")
            /\ SampleClass(module.get_sample, caught) # "other")
        => ReturnsMessage(validation',
             SampleMessages[SampleClass(module.get_sample, caught)])

\* C21 as stated: for the dataset-size accessor and the sample accessor the
\* validator returns a 'not implemented' message when the accessor raises
\* the not-implemented signal, a generic 'failed' message when it raises
\* any other exception, and a type or range message when it returns a wrong
\* result, the messages being pairwise distinct.
C21_ThreeWayClassification ==
    [][validation' # validation => Classified(RaisedTypes)]_vars

\* C21 amended: the same, the generic 'failed' message being returned for
\* the other exceptions that derive from Exception; an exception that does
\* not (SystemExit, KeyboardInterrupt) leaves the validator uncaught and no
\* message is returned.
C21_ThreeWayClassificationOfExceptions ==
    [][validation' # validation =>
         /\ Classified(RaisedTypes \ BaseOnly)
         /\ (PassesBefore(module, "get_dataset_size")
                 /\ Escapes(module.get_dataset_size))
             => validation'.outcome = "raise"
         /\ (PassesBefore(module, "get_sample") /\ Escapes(module.get_sample))
             => validation'.outcome = "raise" ]_vars

\* a dataset size that is an integer <= 0 got the range message
C21_Witness == ReturnsMessage(validation, DatasetSizeMessages.range)

\* --- the scorer check
ScorerTolerated(m, caught) ==
    /\ Called(m.score_response)
    /\ m.nparams >= 2
    /\ m.score_response.kind = "raises"
    /\ m.score_response.type \in caught \ {"NotImplementedError"}
ScorerRejected(m) ==
    /\ Called(m.score_response)
    /\ \/ m.nparams \in 0..1
       \/ /\ m.nparams >= 2
          /\ m.score_response.kind = "raises"
          /\ m.score_response.type = "NotImplementedError"
       \/ /\ m.nparams >= 2
          /\ m.score_response.kind = "returns"
          /\ m.score_response.type \notin {"int", "bool", "float"}
Passed(v) == v.outcome = "return" /\ v.result = PyNone

\* C22 as stated: a scorer that raises any exception other than the
\* not-implemented signal on the dummy input does not fail validation; the
\* scorer check fails validation only when the scorer declares fewer than
\* two parameters, raises the not-implemented signal or returns a value
\* that is not a number.
C22_ScorerErrorsTolerated ==
    [][ (validation' # validation /\ PassesBefore(module, "score_response")) =>
          /\ ScorerTolerated(module, RaisedTypes) => Passed(validation')
          /\ ~Passed(validation') => ScorerRejected(module) ]_vars

\* C22 amended: the same for the exceptions that derive from Exception; the
\* validation is left by an uncaught exception, with no verdict, when the
\* scorer raises an exception that does not derive from Exception or when
\* its signature cannot be inspected.
C22_ScorerExceptionsTolerated ==
    [][ (validation' # validation /\ PassesBefore(module, "score_response")) =>
          /\ ScorerTolerated(module, RaisedTypes \ BaseOnly) => Passed(validation')
          /\ (validation'.outcome = "return" /\ validation'.result # PyNone)
                => ScorerRejected(module)
          /\ validation'.outcome = "raise" <=>
                /\ Called(module.score_response)
                /\ \/ module.nparams < 0
                   \/ module.nparams >= 2 /\ Escapes(module.score_response) ]_vars

\* a module whose scorer raises KeyError on the dummy input has passed
C22_Witness ==
    /\ Passed(validation)
    /\ validation.probes[Len(validation.probes)] = "score_response()"
    /\ pc = "uvicorn_logging"

\* C23: the reader task never blocks the event loop: whatever the
\* subprocess has written (nothing, a complete line, or text with no
\* newline yet) the reader's step returns, so that it is never found
\* waiting inside a synchronous call while the main task's keep-alive loop
\* and a pending cancellation wait for the loop.
C23_ReaderNeverBlocksLoop == reader # "blocked"

\* the entries the reader submitted after the subprocess had exited
ReaderEntriesAfterExit ==
    {k \in DOMAIN submitted :
        submitted[k].prod = "reader" /\ k > proc.exitMark}

C25_FullyShutDownWhenStopReturns ==
    [][(pc = "stop_close" /\ pc' = "returned")
          => (wpc' = "exited" /\ ~filesOpen')]_vars

\* the line occurs in the file
InFile(l, file) == \E j \in DOMAIN file : file[j] = l

\* the line at position i of the primary stream belongs to an entry whose
\* processing the writer has finished
Completed(i) == ~(wpc = "persist" /\ i = Len(stdout))

\* C26: the persisted files are a complete projection of the primary
\* stream: every status line the writer has written to the primary stream
\* is in the deploy file and every log line in the serve file, once the
\* writer is done with the entry, also for the entries it processes while
\* or after stop() closes the files.
C26_FilesCompleteProjection ==
    \A i \in DOMAIN stdout :
        Completed(i) =>
            /\ stdout[i].type = "status" => InFile(stdout[i], deployFile)
            /\ stdout[i].type = "log" => InFile(stdout[i], serveFile)

\* s is t with some of its elements left out, the others in t's order
RECURSIVE IsSubsequence(_, _)
IsSubsequence(s, t) ==
    IF s = <<>> THEN TRUE
    ELSE IF t = <<>> THEN FALSE
    ELSE IF Head(s) = Head(t) THEN IsSubsequence(Tail(s), Tail(t))
    ELSE IsSubsequence(s, Tail(t))

\* C27: each persisted file is an order-preserving subsequence of the
\* primary stream: every line of the deploy file and of the serve file is a
\* line of the primary stream, the same text, and the lines of a file are
\* in the order they have on the primary stream.
C27_FilesSubsequenceOfPrimaryStream ==
    /\ IsSubsequence(deployFile, stdout)
    /\ IsSubsequence(serveFile, stdout)

\* two status lines with a log line between them on the primary stream,
\* stamped with a deployment id, all three persisted
C27_Witness ==
    /\ Len(stdout) = 3
    /\ stdout[1].type = "status"
    /\ stdout[2].type = "log"
    /\ stdout[3].type = "status"
    /\ deployment_id = "dep-1"
    /\ deployFile = <<stdout[1], stdout[3]>>
    /\ serveFile = <<stdout[2]>>

\* the positions of the main task after the try block
Cleanup == {"finally", "stop", "stop_wake", "stop_join", "stop_close",
            "returned", "exited"}

\* the steps of the startup sequence, in the order of the code
StartupOrder ==
    <<"start", "check_key", "auth", "check_file", "capture", "load",
      "validate", "uvicorn_logging", "acquire_port", "start_server",
      "health", "health_wait", "tunnel", "tunnel_wait", "ready",
      "keepalive">>

StepOf(p) == CHOOSE i \in DOMAIN StartupOrder : StartupOrder[i] = p

\* the position at which each checkpoint is evaluated
CheckpointAt ==
    [api_key |-> "check_key", auth |-> "auth", file |-> "check_file",
     load |-> "load", validation |-> "validate", server |-> "start_server",
     health |-> "health_wait", tunnel |-> "tunnel_wait"]

\* C28: a fatal error short-circuits the startup sequence.  Once an `error`
\* status has been submitted the main task is in its cleanup and no step of
\* the sequence runs any more (no load, validation, logger bridge, port,
\* server start, health check, tunnel, reader start).  The steps are taken
\* in the fixed order of StartupOrder, one after the other, so a checkpoint
\* is evaluated only after the earlier ones passed, and the `error` status
\* is submitted by the checkpoint that failed, which is the first to fail.
C28_FatalErrorShortCircuits ==
    [][/\ CountStatus("error") >= 1 =>
            /\ pc \in Cleanup /\ pc' \in Cleanup
            /\ (sysStdout' = "capture") => (sysStdout = "capture")
            /\ (sysStderr' = "capture") => (sysStderr = "capture")
            /\ <<module, validation, handlerInstalled, port, serverRunning,
                 url, reader>>' =
               <<module, validation, handlerInstalled, port, serverRunning,
                 url, reader>>
       /\ (pc \notin Cleanup /\ pc' \notin Cleanup /\ pc' # pc) =>
            \/ StepOf(pc') = StepOf(pc) + 1
            \/ local_mode /\ pc = "tunnel" /\ pc' = "ready"
       /\ CountStatus("error")' > CountStatus("error") =>
            /\ CountStatus("error") = 0
            /\ fatal = "none"
            /\ fatal' \in DOMAIN CheckpointAt
            /\ pc = CheckpointAt[fatal']
            /\ pc' = "finally"
      ]_vars

\* the last checkpoint, tunnel creation, failed after all the others had
\* passed, and the run has ended with that one error
C28_Witness ==
    /\ fatal = "tunnel"
    /\ pc = "returned"
    /\ CountStatus("error") = 1
    /\ serverRunning /\ handlerInstalled

\* the positions of the `ready` statuses among the submitted entries
ReadyAt ==
    {k \in DOMAIN submitted :
        submitted[k].type = "status" /\ submitted[k].status = "ready"}

\* the main task logged the message before it submitted entry k
LoggedBefore(k, source, message) ==
    \E j \in 1..(k - 1) :
        /\ submitted[j].type = "log"
        /\ submitted[j].prod = "main"
        /\ submitted[j].source = source
        /\ submitted[j].message = message

\* the tunnel collaborator was asked for a tunnel
TunnelRequested ==
    \E j \in DOMAIN submitted :
        submitted[j].message = <<"Creating Cloudflare tunnel...">>

\* C29: a `ready` status is submitted only after validation returned no
\* error, the server start call returned, the health check succeeded and,
\* unless local mode is on, tunnel creation succeeded.  Its port is the
\* port the server was started on and the health check was made on, its url
\* the tunnel's (the localhost url in local mode).  In local mode no tunnel
\* is requested and no reader task is started.
C29_ReadyOnlyAfterStartupSucceeded ==
    /\ \A k \in ReadyAt :
          /\ validation.outcome = "return" /\ ~Truthy(validation.result)
          /\ serverRunning
          /\ port \in Ports
          /\ submitted[k].port = port
          /\ LoggedBefore(k, "app",
                 <<"Starting server on port ", ToString(submitted[k].port),
                   "...">>)
          /\ LoggedBefore(k, "app", <<"Health check passed">>)
          /\ submitted[k].url = url
          /\ IF local_mode
             THEN url = LocalUrl(port)
             ELSE /\ url \in TunnelUrls
                  /\ LoggedBefore(k, "cloudflare", <<"Tunnel created: ">> \o url)
    /\ local_mode =>
          /\ ~TunnelRequested
          /\ reader = "none"
          /\ proc = NoProcess

\* a tunnelled run that is ready, its reader task started on the tunnel's
\* subprocess
C29_Witness ==
    /\ ReadyAt # {}
    /\ ~local_mode
    /\ reader = "poll"
    /\ proc.state = "alive"
    /\ pc = "keepalive"

\* the writes the module made on the channel during the load
OnStdout(c) == c.chan = "stdout"
OnStderr(c) == c.chan = "stderr"
\* the entries the adapter of the channel submitted
FromStdout(e) == e.prod = "stdout"
FromStderr(e) == e.prod = "stderr"
Messages(es) == [i \in DOMAIN es |-> es[i].message]

\* positions and fatal conditions of a run before the file check has passed
BeforeFileCheckPassed == {"start", "check_key", "auth", "check_file"}
EndsBeforeFileCheckPassed == {"api_key", "auth", "file"}

\* C30: the adapters are installed on sys.stdout and sys.stderr before the
\* module is executed: while the module's code runs both are bound to an
\* adapter, and the non-blank complete lines the module has written to
\* either channel are exactly the log entries submitted for that channel,
\* in order, source "app".  On a run that ends before the file-existence
\* check has passed, sys.stdout and sys.stderr are never replaced.
C30_CaptureInstalledBeforeLoad ==
    /\ pc = "exec" => (sysStdout = "capture" /\ sysStderr = "capture")
    /\ Messages(SelectSeq(submitted, FromStdout)) =
          NonBlankLines(Concat(SelectSeq(adapterCalls, OnStdout)))
    /\ Messages(SelectSeq(submitted, FromStderr)) =
          NonBlankLines(Concat(SelectSeq(adapterCalls, OnStderr)))
    /\ \A k \in DOMAIN submitted :
          submitted[k].prod \in {"stdout", "stderr"} =>
              submitted[k].type = "log" /\ submitted[k].source = "app"
    /\ (pc \in BeforeFileCheckPassed \/ fatal \in EndsBeforeFileCheckPassed) =>
          (sysStdout = "original" /\ sysStderr = "original")

\* the module wrote a complete line to each channel while it was loaded,
\* both were submitted, and the load has ended
C30_Witness ==
    /\ pc = "validate"
    /\ Len(SelectSeq(submitted, FromStdout)) >= 1
    /\ Len(SelectSeq(submitted, FromStderr)) >= 1

\* the sink is being shut down or has been: stop() was called
SinkShutDown == pc \in {"stop", "stop_wake", "stop_join", "stop_close",
                        "returned", "exited"}

\* C31: every non-blank text the application wrote through an adapter is
\* forwarded: when the deployment ends, a non-blank partial line held in
\* the buffer of the stdout or the stderr adapter is forwarded as a log
\* entry before the sink is shut down, so that from the call of stop() on
\* neither buffer holds non-blank text.
C31_PartialLineForwardedAtEnd ==
    SinkShutDown => (~NonBlank(_buffer) /\ ~NonBlank(errBuffer))

\* the complete non-blank lines the subprocess wrote that are still unread
\* in the pipe
UnreadLines == {i \in DOMAIN proc.stdout : proc.stdout[i].kind = "line"}

\* C32: every non-blank line the tunnel subprocess writes is submitted to
\* the sink, also the lines written shortly before the subprocess exits:
\* when the reader task has ended by itself, the main task still in its
\* keep-alive loop, no complete non-blank line is left unread in the pipe.
C32_TunnelLinesSubmitted ==
    (reader = "done" /\ pc = "keepalive") => UnreadLines = {}

\* the records the claim is about: logged on one of the three loggers after
\* the bridge was installed, at INFO or higher
Bridged ==
    {n \in DOMAIN records :
        /\ records[n].bridged
        /\ records[n].logger \in UvicornLoggers
        /\ LevelNo(records[n].levelname) >= LevelNo("INFO")}

\* the entries of the sink that record n produced
EntriesOf(n) ==
    {k \in DOMAIN submitted :
        /\ submitted[k].prod = "server"
        /\ submitted[k].type = "log"
        /\ submitted[k].message = <<"record ", ToString(n)>>}

ThreadsDone == \A t \in Threads : threads[t].pc \in {"idle", "raised"}

\* the entries forwarded with the text of the line, and the write() calls
\* that passed the line
ForwardsOf(data) ==
    {k \in DOMAIN submitted : submitted[k].message = rstrip(data)}
CallsPassing(data) ==
    {i \in DOMAIN adapterCalls : adapterCalls[i].data = data}

\* C34: when two threads call write() on the same adapter concurrently,
\* each with whole newline-terminated non-blank lines, every line is
\* forwarded exactly once, whatever the interleaving: once the calls are
\* over, each line has as many entries as calls that passed it, and no
\* call has raised.
C34_ConcurrentWritesForwardedOnce ==
    ThreadsDone =>
        /\ \A t \in Threads :
              Cardinality(ForwardsOf(ThreadLine(t))) =
                  Cardinality(CallsPassing(ThreadLine(t)))
        /\ \A t \in Threads : threads[t].pc # "raised"

\* the terminal lines and the positions of the lines of a status
TerminalStatuses == {"completed", "error"}
LinesOf(sts) == {i \in DOMAIN printed : printed[i].status \in sts}
JobEnded == jobpc \in {"returned", "raised"}

\* the sequence of lines is a prefix of a well-formed one: at most one
\* submitted line, progress lines only after it, nothing after a terminal
\* line
WellFormedSoFar ==
    /\ Cardinality(LinesOf({"submitted"})) <= 1
    /\ Cardinality(LinesOf(TerminalStatuses)) <= 1
    /\ \A i \in LinesOf(TerminalStatuses) : i = Len(printed)
    /\ \A i \in LinesOf({"progress"}) :
          \E j \in LinesOf({"submitted"}) : j < i
    /\ LinesOf({"submitted"}) = {} =>
          \A i \in DOMAIN printed : printed[i].status = "error"

\* C35: every run of run_eval_job prints a sequence of status lines that
\* ends with exactly one terminal line (completed or error), has at most
\* one submitted line and every progress line between the submitted line
\* and the terminal one; a run in which the key is missing, auth fails or
\* the submission fails prints one error line and nothing else.
C35_StatusLineProtocol ==
    /\ WellFormedSoFar
    /\ JobEnded =>
          /\ printed # <<>>
          /\ printed[Len(printed)].status \in TerminalStatuses

\* _ensure_dependencies_installed has returned or raised
LauncherEnded == lpc \in {"returned", "raised"}

\* C36: on every exit path of _ensure_dependencies_installed package.json
\* has its original content (after a replacement by the dist version the
\* original is written back, whether the install succeeded, returned a
\* non-zero code or raised), and when the dependencies are already
\* installed the file is not touched.
C36_PackageJsonRestored ==
    /\ [](LauncherEnded => package_json = package_json0)
    /\ [][(lpc = "check_modules" /\ node_modules) =>
             (package_json' = package_json /\ lpc' = "returned")]_vars

====
